---- MODULE Spec2Model ----
(***************************************************************************)
(* Chess.com analytics: the game record normalization and analytics        *)
(* pipeline of advanced_game_analysis.py (month planning, fetch, date      *)
(* filter, merge, perspective normalization, notation parsing, opening     *)
(* classification, aggregation) and of its sibling game_analysis.py.       *)
(*                                                                         *)
(* Three specifications share the variables below:                         *)
(*   Spec         main() driving get_recent_games() for each subject       *)
(*   SpecAnalyze  the per-game normalizers and the result tally            *)
(*   SpecParse    extract_opening_moves() and classify_opening()           *)
(*                                                                         *)
(* Conventions.  Python's None and a missing dict key are the empty        *)
(* sequence << >>, a present value v is << v >>.  A datetime is a record   *)
(* of its fields and is compared field by field as Python compares naive   *)
(* datetimes.  Text that the code inspects character by character is a     *)
(* sequence of one-character strings.  datetime.fromtimestamp is taken in  *)
(* a local time zone equal to UTC.                                         *)
(***************************************************************************)
EXTENDS Integers, Sequences, FiniteSets, TLC

VARIABLES
    \* ---- main() and get_recent_games() (Spec)
    pc,               \* position in the program being run
    args,             \* parsed command line: dates, times, usernames, num_games
    now,              \* datetime.now()
    archive,          \* games held by the game source (Chess.com)
    start_datetime,   \* main: start bound or None
    end_datetime,     \* main: end bound or None
    userIdx,          \* main: index of the subject being processed
    months_to_search, \* get_recent_games: planned buckets of the filtered mode
    monthIdx,         \* get_recent_games: position in months_to_search
    month_offset,     \* get_recent_games: loop variable of the unfiltered mode
    games,            \* get_recent_games: accumulated games
    recent,           \* value returned by get_recent_games
    outcome,          \* how main ended
    reports,          \* subjects for which a report was printed
    fetchLog,         \* history: buckets requested for the current subject
    fetchedOk,        \* history: raw games of the fetches that succeeded
    fetchCount,       \* history: month fetches issued in the whole run
    \* ---- analyze_game / analyze_game_result and the tally (SpecAnalyze)
    variant,          \* which script runs: "advanced" or "basic"
    username,         \* the subject
    rawGames,         \* history: the raw games handed to the analysis loop
    analyzed_games,   \* advanced: list of analysis dicts; basic: printed rows
    stats,            \* the tally once computed
    \* ---- extract_opening_moves (SpecParse)
    pgn,              \* the notation blob, or None
    opening,          \* the returned (first_moves_str, opening_name)
    classifyCalls,    \* history: arguments classify_opening was called with
    labels,           \* history: labels classify_opening returned
    \* ---- the database of analyze_user_games and the subjects of main (Spec)
    stored,           \* game ids committed to the database in this run
    processed,        \* history: <<subject, how its analysis ended>>, in order
    db_log,           \* history: the calls made on the database connection (SpecPersist)
    \* ---- the database configuration (SpecConfig)
    default_config,   \* the module's DEFAULT_DATABASE_CONFIG
    config_file,      \* contents of database_config.json
    loaded_config,    \* history: configs returned by load_database_config
    configure_calls   \* history: the arguments of the calls of configure_database

mainVars == <<args, now, archive, start_datetime, end_datetime, userIdx, outcome, reports>>
fetchVars == <<months_to_search, monthIdx, month_offset, games, recent, fetchLog, fetchedOk, fetchCount>>
analyzeVars == <<variant, username, rawGames, analyzed_games, stats>>
parseVars == <<pgn, opening, classifyCalls, labels>>
dbVars == <<stored, processed, db_log>>
configVars == <<default_config, config_file, loaded_config, configure_calls>>
vars == <<pc, mainVars, fetchVars, analyzeVars, parseVars, dbVars, configVars>>

None == << >>
Some(v) == << v >>
IsNone(o) == o = << >>
Val(o) == o[1]

Min(a, b) == IF a <= b THEN a ELSE b

(***************************************************************************)
(* Calendar arithmetic of Python's datetime (proleptic Gregorian).         *)
(***************************************************************************)

\* date.toordinal-style day number, counted from 1970-01-01
DaysFromCivil(y, m, d) ==
    LET yy  == IF m <= 2 THEN y - 1 ELSE y
        era == yy \div 400
        yoe == yy - era * 400
        mp  == IF m > 2 THEN m - 3 ELSE m + 9
        doy == (153 * mp + 2) \div 5 + d - 1
        doe == yoe * 365 + yoe \div 4 - yoe \div 100 + doy
    IN  era * 146097 + doe - 719468

\* the calendar date of a day number
CivilFromDays(z0) ==
    LET z   == z0 + 719468
        era == z \div 146097
        doe == z - era * 146097
        yoe == (doe - doe \div 1460 + doe \div 36524 - doe \div 146096) \div 365
        doy == doe - (365 * yoe + yoe \div 4 - yoe \div 100)
        mp  == (5 * doy + 2) \div 153
        d   == doy - (153 * mp + 2) \div 5 + 1
        m   == IF mp < 10 THEN mp + 3 ELSE mp - 9
        y   == yoe + era * 400 + (IF m <= 2 THEN 1 ELSE 0)
    IN  [year |-> y, month |-> m, day |-> d]

DateTime(y, mo, d, h, mi, s, us) ==
    [year |-> y, month |-> mo, day |-> d, hour |-> h, minute |-> mi, second |-> s,
     microsecond |-> us]

\* datetime.timestamp(), whole seconds
Timestamp(dt) ==
    DaysFromCivil(dt.year, dt.month, dt.day) * 86400
        + dt.hour * 3600 + dt.minute * 60 + dt.second

\* datetime.fromtimestamp(ts) for an integer ts
FromTimestamp(ts) ==
    LET days == ts \div 86400
        sod  == ts % 86400
        c    == CivilFromDays(days)
    IN  DateTime(c.year, c.month, c.day, sod \div 3600, (sod % 3600) \div 60, sod % 60, 0)

\* datetime.__lt__ / __le__ / __gt__ on naive datetimes: field by field
DtFields(dt) == <<dt.year, dt.month, dt.day, dt.hour, dt.minute, dt.second, dt.microsecond>>

RECURSIVE LexLess(_, _, _)
LexLess(a, b, i) ==
    IF i > Len(a) THEN FALSE
    ELSE IF a[i] < b[i] THEN TRUE
    ELSE IF a[i] > b[i] THEN FALSE
    ELSE LexLess(a, b, i + 1)

DtLess(a, b) == LexLess(DtFields(a), DtFields(b), 1)
DtLeq(a, b) == ~DtLess(b, a)
DtGreater(a, b) == DtLess(b, a)

\* datetime - timedelta(days = n)
MinusDays(dt, n) ==
    LET c == CivilFromDays(DaysFromCivil(dt.year, dt.month, dt.day) - n)
    IN  [dt EXCEPT !.year = c.year, !.month = c.month, !.day = c.day]

(***************************************************************************)
(* The game source: Chess.com's monthly archives, read through             *)
(* get_player_games_by_month(username, year, month).                       *)
(***************************************************************************)

\* what the raw games hold for the subject's side, by game id: the rating
\* (game 4 has none) and the result analyze_game derives for the subject
PlayerRatings ==
    << Some(1500), Some(1510), Some(1490), None, Some(1530),
       Some(1480), Some(1520), Some(1540), Some(1470), Some(1600) >>
PlayerResults ==
    << "win", "loss", "draw", "win", "win", "loss", "win", "draw", "loss", "win" >>

RawGame(id, end_time) ==
    [id |-> id, end_time |-> end_time,
     player_rating |-> PlayerRatings[id], result |-> PlayerResults[id]]

At(y, mo, d, h, mi, s) == Some(Timestamp(DateTime(y, mo, d, h, mi, s, 0)))

\* a game as the source files it: under the archive of (year, month)
Filed(game, year, month) == [game |-> game, year |-> year, month |-> month]

\* every game the source may hold, oldest first.  Games 3 and 4 end in the
\* same second; game 6 ends one second after local midnight and is filed by
\* the source, whose clock is behind, under the month before; game 10
\* carries no end_time
UniverseSeq ==
    << Filed(RawGame(1, At(2023, 12, 31, 23, 59, 59)), 2023, 12),
       Filed(RawGame(2, At(2024, 1, 1, 0, 0, 0)), 2024, 1),
       Filed(RawGame(3, At(2024, 1, 31, 23, 59, 0)), 2024, 1),
       Filed(RawGame(4, At(2024, 1, 31, 23, 59, 0)), 2024, 1),
       Filed(RawGame(5, At(2024, 1, 31, 23, 59, 59)), 2024, 1),
       Filed(RawGame(6, At(2024, 2, 1, 0, 0, 1)), 2024, 1),
       Filed(RawGame(7, At(2024, 2, 10, 12, 0, 0)), 2024, 2),
       Filed(RawGame(8, At(2024, 3, 1, 9, 0, 0)), 2024, 3),
       Filed(RawGame(9, At(2024, 3, 1, 10, 0, 0)), 2024, 3),
       Filed(RawGame(10, None), 2024, 3) >>

GameUniverse == {UniverseSeq[i] : i \in DOMAIN UniverseSeq}

RECURSIVE GamesOf(_)
GamesOf(filed) ==
    IF filed = << >> THEN << >> ELSE <<filed[1].game>> \o GamesOf(Tail(filed))

\* monthly_games.json.get('games', []) of a fetch that succeeds
MonthlyData(held, year, month) ==
    GamesOf(SelectSeq(UniverseSeq,
                      LAMBDA f : f \in held /\ f.year = year /\ f.month = month))

(***************************************************************************)
(* get_recent_games                                                        *)
(***************************************************************************)

\* game.get('end_time', 0)
EndTimeOr0(g) == IF IsNone(g.end_time) THEN 0 ELSE Val(g.end_time)

\* the month after (year, month), as a datetime keeps its other fields
NextMonth(dt) ==
    IF dt.month = 12 THEN [dt EXCEPT !.year = dt.year + 1, !.month = 1]
    ELSE [dt EXCEPT !.month = dt.month + 1]

\* search_start: start_date, or the first of the month one year before now
SearchStart(start_date, current_date) ==
    IF ~IsNone(start_date) THEN Val(start_date)
    ELSE DateTime(current_date.year - 1, current_date.month, 1, 0, 0, 0, 0)

\* search_end: end_date, or now
SearchEnd(end_date, current_date) ==
    IF ~IsNone(end_date) THEN Val(end_date) ELSE current_date

\* the while loop that fills months_to_search, from current_search on
RECURSIVE MonthsFrom(_, _)
MonthsFrom(current_search, search_end) ==
    IF DtLeq(current_search, search_end)
    THEN <<(<<current_search.year, current_search.month>>)>>
             \o MonthsFrom(NextMonth(current_search), search_end)
    ELSE << >>

MonthsToSearch(start_date, end_date, current_date) ==
    MonthsFrom([SearchStart(start_date, current_date) EXCEPT !.day = 1],
               SearchEnd(end_date, current_date))

\* a date filter whose bounds are exclusive
DateFilterKeepExclusive(g, start_date, end_date) ==
    LET game_date == FromTimestamp(EndTimeOr0(g))
    IN  /\ ~(~IsNone(start_date) /\ DtLeq(game_date, Val(start_date)))
        /\ ~(~IsNone(end_date) /\ DtLeq(Val(end_date), game_date))

\* the two `continue` tests of the date filter: TRUE when the game is kept
DateFilterKeep(g, start_date, end_date) ==
    LET game_date == FromTimestamp(EndTimeOr0(g))
    IN  /\ ~(~IsNone(start_date) /\ DtLess(game_date, Val(start_date)))
        /\ ~(~IsNone(end_date) /\ DtGreater(game_date, Val(end_date)))

FilterByDate(monthly_data, start_date, end_date) ==
    SelectSeq(monthly_data, LAMBDA g : DateFilterKeep(g, start_date, end_date))

\* the bucket of the unfiltered walk at a given offset
UnfilteredBucket(current_date, offset) ==
    LET target_date == MinusDays(current_date, 30 * offset)
    IN  <<target_date.year, target_date.month>>

\* a handler that leaves the loop instead
AfterFetchErrorBreak(idx, last) == last + 1

\* where the loop goes after `except Exception: continue`
AfterFetchError(idx, last) == idx + 1

\* list.sort(key = end_time or 0, reverse = True): stable, descending
RECURSIVE InsertDesc(_, _)
InsertDesc(sorted, g) ==
    IF sorted = << >> THEN <<g>>
    ELSE IF EndTimeOr0(sorted[1]) >= EndTimeOr0(g)
         THEN <<sorted[1]>> \o InsertDesc(Tail(sorted), g)
         ELSE <<g>> \o sorted

RECURSIVE SortDesc(_, _)
SortDesc(sorted, rest) ==
    IF rest = << >> THEN sorted
    ELSE SortDesc(InsertDesc(sorted, rest[1]), Tail(rest))

\* a truncation that keeps the tail of the list, games[-num_games:]
TruncateTail(gs, num_games) ==
    IF Len(gs) > num_games THEN SubSeq(gs, Len(gs) - num_games + 1, Len(gs)) ELSE gs

\* games[:num_games] when there are more than num_games, else games
Truncate(gs, num_games) ==
    IF Len(gs) > num_games THEN SubSeq(gs, 1, num_games) ELSE gs

\* a merge that truncates the pool in the order it was fetched
MergeGamesUnsorted(gs, num_games) == Truncate(gs, num_games)

\* the first occurrence of every game of a list
RECURSIVE Distinct(_, _)
Distinct(seen, gs) ==
    IF gs = << >> THEN seen
    ELSE Distinct(IF \E i \in DOMAIN seen : seen[i].id = gs[1].id
                  THEN seen ELSE Append(seen, gs[1]), Tail(gs))

\* a merge that keeps one occurrence of every game_id
MergeGamesDistinct(gs, num_games) == Truncate(SortDesc(<< >>, Distinct(<< >>, gs)), num_games)

\* get_recent_games, lines 468-474: sort, then truncate
MergeGames(gs, num_games) == Truncate(SortDesc(<< >>, gs), num_games)

(***************************************************************************)
(* main: the command line, its validation and the loop over the subjects.  *)
(***************************************************************************)

\* bounds of the inputs
MaxNumGames == 2

DateArg(y, mo, d) == [ok |-> TRUE, year |-> y, month |-> mo, day |-> d]
BadDateArg == [ok |-> FALSE, year |-> 0, month |-> 0, day |-> 0]
TimeArg(h, mi) == [hour |-> h, minute |-> mi]

StartDateArgs == {None, Some(DateArg(2024, 1, 1)), Some(DateArg(2024, 1, 15)), Some(BadDateArg)}
StartTimeArgs == {None, Some(TimeArg(14, 30))}
EndDateArgs ==
    {None, Some(DateArg(2024, 1, 31)), Some(DateArg(2024, 3, 1)), Some(DateArg(2024, 1, 10)),
     Some(BadDateArg)}
EndTimeArgs == {None, Some(TimeArg(10, 0))}
UsernameLists == {<<"u1">>, <<"u1", "u2">>}
Nows == {DateTime(2024, 3, 31, 12, 0, 0, 0), DateTime(2024, 3, 1, 8, 0, 0, 0)}
Archives == {{}, GameUniverse}

\* datetime.strptime raises ValueError
ParseFails(a) ==
    \/ ~IsNone(a.start_date) /\ ~Val(a.start_date).ok
    \/ ~IsNone(a.end_date) /\ ~Val(a.end_date).ok

\* start_datetime: the date at the given time, else at midnight
ParseStart(a) ==
    IF IsNone(a.start_date) THEN None
    ELSE LET d == Val(a.start_date) IN
         IF ~IsNone(a.start_time)
         THEN Some(DateTime(d.year, d.month, d.day,
                            Val(a.start_time).hour, Val(a.start_time).minute, 0, 0))
         ELSE Some(DateTime(d.year, d.month, d.day, 0, 0, 0, 0))

\* end_datetime: the date at the given time, else at datetime.max.time()
ParseEnd(a) ==
    IF IsNone(a.end_date) THEN None
    ELSE LET d == Val(a.end_date) IN
         IF ~IsNone(a.end_time)
         THEN Some(DateTime(d.year, d.month, d.day,
                            Val(a.end_time).hour, Val(a.end_time).minute, 0, 0))
         ELSE Some(DateTime(d.year, d.month, d.day, 23, 59, 59, 999999))

\* a main that never rejects a range
RangeNeverInvalid(s, e) == FALSE

\* the date range check of main
RangeInvalid(s, e) == ~IsNone(s) /\ ~IsNone(e) /\ DtGreater(Val(s), Val(e))

InitAnalyzeIdle ==
    /\ variant = "none"
    /\ username = ""
    /\ rawGames = << >>
    /\ analyzed_games = << >>
    /\ stats = None

InitParseIdle ==
    /\ pgn = None
    /\ opening = None
    /\ classifyCalls = << >>
    /\ labels = << >>

InitDbIdle ==
    /\ stored = << >>
    /\ processed = << >>
    /\ db_log = << >>

InitConfigIdle ==
    /\ default_config = None
    /\ config_file = [kind |-> "missing"]
    /\ loaded_config = << >>
    /\ configure_calls = << >>

InitFetchIdle ==
    /\ months_to_search = << >>
    /\ monthIdx = 1
    /\ month_offset = 0
    /\ games = << >>
    /\ recent = << >>
    /\ fetchLog = << >>
    /\ fetchedOk = << >>
    /\ fetchCount = 0

Init ==
    /\ pc = "main_parse"
    /\ args \in [start_date : StartDateArgs, start_time : StartTimeArgs,
                 end_date : EndDateArgs, end_time : EndTimeArgs,
                 usernames : UsernameLists, num_games : 0 .. MaxNumGames,
                 use_database : BOOLEAN]
    /\ now \in Nows
    /\ archive \in Archives
    /\ start_datetime = None
    /\ end_datetime = None
    /\ userIdx = 1
    /\ outcome = "running"
    /\ reports = << >>
    /\ InitFetchIdle
    /\ InitAnalyzeIdle
    /\ InitParseIdle
    /\ InitDbIdle
    /\ InitConfigIdle

\* main, lines 897-923: parse the date and time arguments
MainParseArgs ==
    /\ pc = "main_parse"
    /\ IF ParseFails(args)
       THEN /\ pc' = "done"
            /\ outcome' = "parse_error"
            /\ UNCHANGED <<start_datetime, end_datetime>>
       ELSE /\ pc' = "main_validate"
            /\ start_datetime' = ParseStart(args)
            /\ end_datetime' = ParseEnd(args)
            /\ UNCHANGED outcome
    /\ UNCHANGED <<args, now, archive, userIdx, reports>>
    /\ UNCHANGED <<fetchVars, analyzeVars, parseVars, dbVars, configVars>>

\* main, lines 925-928: validate the date range
MainValidate ==
    /\ pc = "main_validate"
    /\ IF RangeInvalid(start_datetime, end_datetime)
       THEN pc' = "done" /\ outcome' = "validation_error"
       ELSE pc' = "main_loop" /\ UNCHANGED outcome
    /\ UNCHANGED <<args, now, archive, start_datetime, end_datetime, userIdx, reports>>
    /\ UNCHANGED <<fetchVars, analyzeVars, parseVars, dbVars, configVars>>

\* main, lines 978-991: the next subject enters analyze_user_games, which
\* calls get_recent_games; after the last subject main returns
MainNextUser ==
    /\ pc = "main_loop"
    /\ IF userIdx <= Len(args.usernames)
       THEN pc' = "get_recent_games" /\ UNCHANGED outcome
       ELSE pc' = "done" /\ outcome' = "complete"
    /\ UNCHANGED <<args, now, archive, start_datetime, end_datetime, userIdx, reports>>
    /\ UNCHANGED <<fetchVars, analyzeVars, parseVars, dbVars, configVars>>

\* get_recent_games, lines 399-418: choose the mode and plan the buckets
GetRecentGamesPlan ==
    /\ pc = "get_recent_games"
    /\ games' = << >>
    /\ recent' = << >>
    /\ fetchLog' = << >>
    /\ fetchedOk' = << >>
    /\ monthIdx' = 1
    /\ month_offset' = 0
    /\ IF ~IsNone(start_datetime) \/ ~IsNone(end_datetime)
       THEN /\ months_to_search' = MonthsToSearch(start_datetime, end_datetime, now)
            /\ pc' = IF months_to_search' = << >> THEN "merge" ELSE "fetch_filtered"
       ELSE /\ months_to_search' = << >>
            /\ pc' = "fetch_unfiltered"
    /\ UNCHANGED <<mainVars, fetchCount, analyzeVars, parseVars, dbVars, configVars>>

\* get_recent_games, lines 420-445: one bucket of the filtered mode
FetchFilteredMonth ==
    /\ pc = "fetch_filtered"
    /\ LET ym == months_to_search[monthIdx]
           monthly_data == MonthlyData(archive, ym[1], ym[2])
           last == Len(months_to_search)
       IN  /\ fetchLog' = Append(fetchLog, ym)
           /\ fetchCount' = fetchCount + 1
           /\ \E ok \in BOOLEAN :
                IF ok
                THEN /\ games' = games \o FilterByDate(monthly_data, start_datetime, end_datetime)
                     /\ fetchedOk' = fetchedOk \o monthly_data
                     /\ monthIdx' = monthIdx + 1
                ELSE /\ monthIdx' = AfterFetchError(monthIdx, last)
                     /\ UNCHANGED <<games, fetchedOk>>
           /\ pc' = IF monthIdx' > last THEN "merge" ELSE "fetch_filtered"
    /\ UNCHANGED <<mainVars, months_to_search, month_offset, recent, analyzeVars, parseVars, dbVars, configVars>>

\* get_recent_games, lines 448-466: one bucket of the unfiltered mode
FetchUnfilteredMonth ==
    /\ pc = "fetch_unfiltered"
    /\ LET ym == UnfilteredBucket(now, month_offset)
           monthly_data == MonthlyData(archive, ym[1], ym[2])
       IN  /\ fetchLog' = Append(fetchLog, ym)
           /\ fetchCount' = fetchCount + 1
           /\ \E ok \in BOOLEAN :
                IF ok
                THEN /\ games' = games \o monthly_data
                     /\ fetchedOk' = fetchedOk \o monthly_data
                     /\ IF Len(games') >= args.num_games
                        THEN pc' = "merge" /\ UNCHANGED month_offset
                        ELSE /\ month_offset' = month_offset + 1
                             /\ pc' = IF month_offset' >= 12 THEN "merge" ELSE "fetch_unfiltered"
                ELSE /\ month_offset' = AfterFetchError(month_offset, 11)
                     /\ pc' = IF month_offset' >= 12 THEN "merge" ELSE "fetch_unfiltered"
                     /\ UNCHANGED <<games, fetchedOk>>
    /\ UNCHANGED <<mainVars, months_to_search, monthIdx, recent, analyzeVars, parseVars, dbVars, configVars>>

\* get_recent_games, lines 468-474: sort, truncate and return
MergeAndReturn ==
    /\ pc = "merge"
    /\ recent' = MergeGames(games, args.num_games)
    /\ pc' = "analyze"
    /\ UNCHANGED <<mainVars, months_to_search, monthIdx, month_offset, games, fetchLog,
                   fetchedOk, fetchCount, analyzeVars, parseVars, dbVars, configVars>>

\* sum(1 for game in analyzed_games if game['result'] == r)
CountResult(rows, r) == Cardinality({i \in DOMAIN rows : rows[i].result = r})

\* analyze_user_games, line 727: `if not games`
NoGames(gs) == gs = << >>

\* the ratings list of line 767: the truthy ratings, in the order of the games
RECURSIVE Ratings(_)
Ratings(gs) ==
    IF gs = << >> THEN << >>
    ELSE (IF IsNone(gs[1].player_rating) \/ gs[1].player_rating = Some(0)
          THEN << >> ELSE <<Val(gs[1].player_rating)>>) \o Ratings(Tail(gs))

SeqMax(seq) == CHOOSE x \in {seq[i] : i \in DOMAIN seq} : \A i \in DOMAIN seq : seq[i] <= x
SeqMin(seq) == CHOOSE x \in {seq[i] : i \in DOMAIN seq} : \A i \in DOMAIN seq : x <= seq[i]

\* analyze_user_games, lines 758-774: the statistics of the report
Report(gs) ==
    LET ratings == Ratings(gs) IN
    [total_games |-> Len(gs),
     wins   |-> CountResult(gs, "win"),
     losses |-> CountResult(gs, "loss"),
     draws  |-> CountResult(gs, "draw"),
     current_rating |-> IF ratings # << >> THEN Some(ratings[Len(ratings)]) ELSE None,
     highest_rating |-> IF ratings # << >> THEN Some(SeqMax(ratings)) ELSE None,
     lowest_rating  |-> IF ratings # << >> THEN Some(SeqMin(ratings)) ELSE None]

\* what one call of store_game_in_database (lines 262-313) or of
\* update_user_statistics_in_database (lines 327-339) can do: commit and
\* return True; fail in execute or commit, roll back and return False; or
\* fail and fail again in connection.rollback(), which no handler encloses
DbOutcomes == {"ok", "failed", "raised"}

\* the index of the first store that raises, or 0
FirstRaise(stores) ==
    IF \E i \in DOMAIN stores : stores[i] = "raised"
    THEN CHOOSE i \in DOMAIN stores :
             stores[i] = "raised" /\ \A j \in 1 .. (i - 1) : stores[j] # "raised"
    ELSE 0

\* the ids of the games committed by stores 1 .. upto
RECURSIVE Committed(_, _, _)
Committed(gs, stores, upto) ==
    IF upto = 0 THEN << >>
    ELSE Committed(gs, stores, upto - 1)
             \o (IF stores[upto] = "ok" THEN <<gs[upto].id>> ELSE << >>)

\* a loop over the subjects that an error ends
AfterAnalysisErrorBreak(idx, last) == last + 1

\* main, lines 992-994: the error of one subject is printed and the loop
\* goes on with the next subject
AfterAnalysisError(idx, last) == idx + 1

Handled(subject, gs, how, report) ==
    [subject |-> subject, games |-> gs, outcome |-> how, stats |-> report]

\* analyze_user_games, lines 702-869, for the games get_recent_games
\* returned, and main's handling of what it raises (lines 984-994): connect
\* to the database if asked to, return early without games, else analyze
\* and store each game, refresh and read back the statistics, and print the
\* report; then main moves to the next subject
AnalyzeAndReport ==
    /\ pc = "analyze"
    /\ LET subject == args.usernames[userIdx]
           last == Len(args.usernames)
       IN  \E connected \in (IF args.use_database THEN BOOLEAN ELSE {FALSE}) :
           \E stores \in (IF connected THEN [DOMAIN recent -> DbOutcomes]
                          ELSE {[i \in DOMAIN recent |-> "failed"]}) :
           \E refresh \in (IF connected THEN DbOutcomes ELSE {"failed"}) :
              LET db_connection == args.use_database /\ connected
                  raiseAt == IF db_connection THEN FirstRaise(stores) ELSE 0
                  done == IF raiseAt = 0 THEN Len(recent) ELSE raiseAt
              IN  IF NoGames(recent)
                  THEN /\ processed' = Append(processed, Handled(subject, recent, "no_games", None))
                       /\ userIdx' = userIdx + 1
                       /\ UNCHANGED <<reports, stored>>
                  ELSE IF db_connection /\ (raiseAt > 0 \/ refresh = "raised")
                  THEN /\ stored' = Committed(recent, stores, done)
                       /\ processed' = Append(processed, Handled(subject, recent, "error", None))
                       /\ userIdx' = AfterAnalysisError(userIdx, last)
                       /\ UNCHANGED reports
                  ELSE /\ stored' = IF db_connection THEN Committed(recent, stores, done)
                                    ELSE << >>
                       /\ processed' = Append(processed,
                              Handled(subject, recent, "report", Some(Report(recent))))
                       /\ reports' = Append(reports, subject)
                       /\ userIdx' = userIdx + 1
    /\ pc' = "main_loop"
    /\ UNCHANGED <<args, now, archive, start_datetime, end_datetime, outcome, db_log>>
    /\ UNCHANGED <<fetchVars, analyzeVars, parseVars, configVars>>

Next ==
    \/ MainParseArgs
    \/ MainValidate
    \/ MainNextUser
    \/ GetRecentGamesPlan
    \/ FetchFilteredMonth
    \/ FetchUnfilteredMonth
    \/ MergeAndReturn
    \/ AnalyzeAndReport

Spec == Init /\ [][Next]_vars

(***************************************************************************)
(* Text: str.lower()                                                       *)
(***************************************************************************)

UpperLetters ==
    <<"A", "B", "C", "D", "E", "F", "G", "H", "I", "J", "K", "L", "M",
      "N", "O", "P", "Q", "R", "S", "T", "U", "V", "W", "X", "Y", "Z">>
LowerLetters ==
    <<"a", "b", "c", "d", "e", "f", "g", "h", "i", "j", "k", "l", "m",
      "n", "o", "p", "q", "r", "s", "t", "u", "v", "w", "x", "y", "z">>

UpperSet == {UpperLetters[i] : i \in DOMAIN UpperLetters}
LowerOf ==
    [c \in UpperSet |-> LowerLetters[CHOOSE i \in DOMAIN UpperLetters : UpperLetters[i] = c]]

LowerChar(c) == IF c \in UpperSet THEN LowerOf[c] ELSE c

\* str.lower()
Lower(str) == [i \in DOMAIN str |-> LowerChar(str[i])]

(***************************************************************************)
(* extract_opening_moves and classify_opening (advanced_game_analysis.py). *)
(* Text is a sequence of one-character strings.                            *)
(***************************************************************************)

\* bound of the inputs: length of the blobs enumerated exhaustively
MaxPgnLen == 4

IsSpace(c) == c \in {" ", "\t", "\n", "\r"}
IsDigit(c) == c \in {"0", "1", "2", "3", "4", "5", "6", "7", "8", "9"}

\* the lengths of the longest runs of digits, of whitespace and of other
\* characters from index i: what a greedy \d+, \s* and \S+ consume
RECURSIVE DigitRun(_, _)
DigitRun(str, i) ==
    IF i <= Len(str) /\ IsDigit(str[i]) THEN 1 + DigitRun(str, i + 1) ELSE 0

RECURSIVE SpaceRun(_, _)
SpaceRun(str, i) ==
    IF i <= Len(str) /\ IsSpace(str[i]) THEN 1 + SpaceRun(str, i + 1) ELSE 0

RECURSIVE TokenRun(_, _)
TokenRun(str, i) ==
    IF i <= Len(str) /\ ~IsSpace(str[i]) THEN 1 + TokenRun(str, i + 1) ELSE 0

From(str, i) == SubSeq(str, i, Len(str))

\* needle in haystack
StartsWith(str, prefix) ==
    Len(prefix) <= Len(str) /\ SubSeq(str, 1, Len(prefix)) = prefix
Contains(str, needle) ==
    \E i \in 1 .. (Len(str) - Len(needle) + 1) :
        SubSeq(str, i, i + Len(needle) - 1) = needle

\* str.split('\n')
RECURSIVE SplitLines(_)
SplitLines(str) ==
    IF \E i \in DOMAIN str : str[i] = "\n"
    THEN LET i == CHOOSE k \in DOMAIN str :
                     str[k] = "\n" /\ \A j \in 1 .. (k - 1) : str[j] # "\n"
         IN  <<SubSeq(str, 1, i - 1)>> \o SplitLines(From(str, i + 1))
    ELSE <<str>>

\* sep.join(parts)
RECURSIVE Join(_, _)
Join(parts, sep) ==
    IF parts = << >> THEN << >>
    ELSE IF Len(parts) = 1 THEN parts[1]
    ELSE parts[1] \o sep \o Join(Tail(parts), sep)

\* the loop over the lines: everything from the first line that is not
\* blank and does not start with '[' (lines 496-500)
RECURSIVE MovesLines(_)
MovesLines(lines) ==
    IF lines = << >> THEN << >>
    ELSE IF (\E i \in DOMAIN lines[1] : ~IsSpace(lines[1][i])) /\ ~StartsWith(lines[1], <<"[">>)
         THEN lines
         ELSE MovesLines(Tail(lines))

\* re.sub(r'\{[^}]*\}', '', text)
RECURSIVE RemoveComments(_)
RemoveComments(str) ==
    IF str = << >> THEN << >>
    ELSE IF str[1] = "{" /\ \E j \in 2 .. Len(str) : str[j] = "}"
         THEN LET j == CHOOSE k \in 2 .. Len(str) :
                          str[k] = "}" /\ \A m \in 2 .. (k - 1) : str[m] # "}"
              IN  RemoveComments(From(str, j + 1))
         ELSE <<str[1]>> \o RemoveComments(Tail(str))

\* the length of a match of r'%clk \d+:\d+:\d+' at the head of str, or 0
ClockMatch(str) ==
    LET h == DigitRun(str, 6)
        m == DigitRun(str, 7 + h)
        x == DigitRun(str, 8 + h + m)
    IN  IF /\ StartsWith(str, <<"%", "c", "l", "k", " ">>)
           /\ h >= 1 /\ 6 + h <= Len(str) /\ str[6 + h] = ":"
           /\ m >= 1 /\ 7 + h + m <= Len(str) /\ str[7 + h + m] = ":"
           /\ x >= 1
        THEN 7 + h + m + x
        ELSE 0

\* re.sub(r'%clk \d+:\d+:\d+', '', text)
RECURSIVE RemoveClocks(_)
RemoveClocks(str) ==
    IF str = << >> THEN << >>
    ELSE IF ClockMatch(str) > 0 THEN RemoveClocks(From(str, ClockMatch(str) + 1))
    ELSE <<str[1]>> \o RemoveClocks(Tail(str))

\* re.sub(r'\s+', ' ', text)
RECURSIVE NormalizeSpace(_)
NormalizeSpace(str) ==
    IF str = << >> THEN << >>
    ELSE IF IsSpace(str[1])
         THEN <<" ">> \o NormalizeSpace(From(str, 1 + SpaceRun(str, 1)))
         ELSE <<str[1]>> \o NormalizeSpace(Tail(str))

\* the moves text the pattern is applied to (lines 492-507)
MovesText(text) ==
    NormalizeSpace(RemoveClocks(RemoveComments(Join(MovesLines(SplitLines(text)), <<" ">>))))

\* a match of r'(\d+\.)\s*(\S+)\s*(\S+)?' starting exactly at index i
MoveMatchAt(str, i) ==
    LET n  == DigitRun(str, i)
        a  == i + n + 1
        b  == a + SpaceRun(str, a)
        t1 == TokenRun(str, b)
        c  == b + t1
        d  == c + SpaceRun(str, c)
        t2 == TokenRun(str, d)
    IN  IF n >= 1 /\ i + n <= Len(str) /\ str[i + n] = "." /\ t1 >= 1
        THEN [ok |-> TRUE, move_num |-> SubSeq(str, i, i + n),
              white_move |-> SubSeq(str, b, c - 1),
              black_move |-> SubSeq(str, d, d + t2 - 1), end |-> d + t2 - 1]
        ELSE [ok |-> FALSE, move_num |-> << >>, white_move |-> << >>,
              black_move |-> << >>, end |-> i]

\* re.findall(move_pattern, text), scanning from index i
RECURSIVE FindMoves(_, _)
FindMoves(str, i) ==
    IF i > Len(str) THEN << >>
    ELSE LET m == MoveMatchAt(str, i) IN
         IF m.ok THEN <<m>> \o FindMoves(str, m.end + 1)
         ELSE FindMoves(str, i + 1)

\* the loop over matches[:3] (lines 517-522)
RECURSIVE FirstMoves(_)
FirstMoves(matches) ==
    IF matches = << >> THEN << >>
    ELSE LET m == matches[1]
             own == IF m.white_move # << >>
                    THEN <<m.move_num \o <<" ">> \o m.white_move>>
                             \o (IF m.black_move # << >> THEN <<m.black_move>> ELSE << >>)
                    ELSE << >>
         IN  own \o FirstMoves(Tail(matches))

\* a decision list that tries 'bc4' before 'nf3 nc6'
classify_opening_reordered(moves_str) ==
    LET moves_lower == Lower(moves_str)
        has(needle) == Contains(moves_lower, needle)
    IN  IF has(<<"e", "4", " ", "e", "5">>)
        THEN IF has(<<"b", "c", "4">>) THEN "Italian Game"
             ELSE IF has(<<"n", "f", "3", " ", "n", "c", "6">>) THEN "Italian Game / Spanish Opening"
             ELSE IF has(<<"b", "b", "5">>) THEN "Spanish Opening (Ruy Lopez)"
             ELSE "King's Pawn Game"
        ELSE IF has(<<"e", "4", " ", "c", "5">>) THEN "Sicilian Defense"
        ELSE IF has(<<"e", "4", " ", "e", "6">>) THEN "French Defense"
        ELSE IF has(<<"e", "4", " ", "c", "6">>) THEN "Caro-Kann Defense"
        ELSE IF has(<<"d", "4", " ", "d", "5">>) THEN "Queen's Pawn Game"
        ELSE IF has(<<"d", "4", " ", "n", "f", "6">>)
             THEN IF has(<<"c", "4">>) THEN "English Opening / Queen's Indian"
                  ELSE "Indian Defense"
        ELSE IF has(<<"n", "f", "3">>) /\ StartsWith(moves_lower, <<"1", ".", " ", "n", "f", "3">>)
             THEN "Reti Opening"
        ELSE IF has(<<"c", "4">>) /\ StartsWith(moves_lower, <<"1", ".", " ", "c", "4">>)
             THEN "English Opening"
        ELSE IF has(<<"f", "4">>) /\ StartsWith(moves_lower, <<"1", ".", " ", "f", "4">>)
             THEN "Bird's Opening"
        ELSE "Other Opening"

\* classify_opening, lines 545-577
classify_opening(moves_str) ==
    LET moves_lower == Lower(moves_str)
        has(needle) == Contains(moves_lower, needle)
    IN  IF has(<<"e", "4", " ", "e", "5">>)
        THEN IF has(<<"n", "f", "3", " ", "n", "c", "6">>) THEN "Italian Game / Spanish Opening"
             ELSE IF has(<<"b", "c", "4">>) THEN "Italian Game"
             ELSE IF has(<<"b", "b", "5">>) THEN "Spanish Opening (Ruy Lopez)"
             ELSE "King's Pawn Game"
        ELSE IF has(<<"e", "4", " ", "c", "5">>) THEN "Sicilian Defense"
        ELSE IF has(<<"e", "4", " ", "e", "6">>) THEN "French Defense"
        ELSE IF has(<<"e", "4", " ", "c", "6">>) THEN "Caro-Kann Defense"
        ELSE IF has(<<"d", "4", " ", "d", "5">>) THEN "Queen's Pawn Game"
        ELSE IF has(<<"d", "4", " ", "n", "f", "6">>)
             THEN IF has(<<"c", "4">>) THEN "English Opening / Queen's Indian"
                  ELSE "Indian Defense"
        ELSE IF has(<<"n", "f", "3">>) /\ StartsWith(moves_lower, <<"1", ".", " ", "n", "f", "3">>)
             THEN "Reti Opening"
        ELSE IF has(<<"c", "4">>) /\ StartsWith(moves_lower, <<"1", ".", " ", "c", "4">>)
             THEN "English Opening"
        ELSE IF has(<<"f", "4">>) /\ StartsWith(moves_lower, <<"1", ".", " ", "f", "4">>)
             THEN "Bird's Opening"
        ELSE "Other Opening"

NA == <<"N", "/", "A">>
ErrorParsing == <<"E", "r", "r", "o", "r", " ", "p", "a", "r", "s", "i", "n", "g">>

\* what a call returns and the calls of classify_opening it makes
Parsed(first_moves_str, opening_name, calls) ==
    [first_moves_str |-> first_moves_str, opening_name |-> opening_name, calls |-> calls]

\* the value of the 'pgn' key: None, a str, or a value that is no str
NoPgn == [kind |-> "none", text |-> << >>]
Str(text) == [kind |-> "str", text |-> text]
NotAStr == [kind |-> "other", text |-> << >>]

\* lines 509-529 without the `if not matches` guard
MovesToOpeningUnguarded(moves_text) ==
    LET matches == FindMoves(moves_text, 1)
        first_moves_str == Join(FirstMoves(SubSeq(matches, 1, Min(3, Len(matches)))), <<" ">>)
    IN  Parsed(first_moves_str, classify_opening(first_moves_str), <<first_moves_str>>)

\* lines 509-529: the part after the text is cleaned
MovesToOpening(moves_text) ==
    LET matches == FindMoves(moves_text, 1) IN
    IF matches = << >> THEN Parsed(NA, "Unknown", << >>)
    ELSE LET first_moves_str == Join(FirstMoves(SubSeq(matches, 1, Min(3, Len(matches)))), <<" ">>)
         IN  Parsed(first_moves_str, classify_opening(first_moves_str), <<first_moves_str>>)

\* extract_opening_moves, lines 487-532
extract_opening_moves(p) ==
    IF p.kind = "none" \/ (p.kind = "str" /\ p.text = << >>)
    THEN Parsed(NA, "Unknown", << >>)
    ELSE IF p.kind = "other"
         THEN Parsed(ErrorParsing, "Unknown", << >>)
         ELSE MovesToOpening(MovesText(p.text))

(***************************************************************************)
(* The perspective normalizers: analyze_game of advanced_game_analysis.py  *)
(* and analyze_game_result of game_analysis.py, with the tallies of        *)
(* analyze_user_games and analyze_games.                                   *)
(***************************************************************************)

\* bound of the inputs: games handed to one analysis run
MaxGames == 2

\* one side of a raw game; a missing 'result' key is None
Side(name, rating, result) == [username |-> name, rating |-> rating, result |-> result]

\* dict.get(key, default) on an optional value
GetOr(o, default) == IF IsNone(o) THEN default ELSE Val(o)

\* the result codes of the tables, two codes outside them, and no code
LossTokens == {"checkmated", "resigned", "timeout", "abandoned"}
DrawTokens == {"agreed", "repetition", "stalemate", "insufficient"}
ResultTokens ==
    {Some(t) : t \in {"win"} \cup LossTokens \cup DrawTokens \cup {"timevsinsufficient", "lose"}}
        \cup {None}

Alice == <<"A", "l", "i", "c", "e">>
Bob == <<"B", "o", "b">>
Carol == <<"C", "a", "r", "o", "l">>
Subject == <<"a", "l", "i", "c", "e">>

\* the subject plays White, plays Black, or is not in the game
Pairings == {<<Alice, Bob>>, <<Bob, Alice>>, <<Bob, Carol>>}

\* the time control and the notation blob of the games of a pairing; the
\* games with Alice as Black carry neither
TimeControlOf(p) == IF p[1] = Alice THEN Some("600") ELSE IF p[2] = Alice THEN None ELSE Some("180")
PgnOf(p) ==
    IF p[2] = Alice THEN NoPgn
    ELSE Str(<<"1", ".", " ", "e", "4", " ", "c", "5", " ", "2", ".", " ", "N", "f", "3">>)

AnalyzeUniverse ==
    {[white |-> Side(p[1], 1500, w), black |-> Side(p[2], 1400, b),
      time_control |-> TimeControlOf(p), pgn |-> PgnOf(p)] :
        p \in Pairings, w \in ResultTokens, b \in ResultTokens}

\* extract_opening_moves on the blobs of AnalyzeUniverse
OpeningOfPgn == [p \in {PgnOf(q) : q \in Pairings} |-> extract_opening_moves(p)]

\* analyze_game, lines 591-625 and 655-669 (advanced_game_analysis.py)
analyze_game(game, user) ==
    LET white_player == Lower(game.white.username)
        black_player == Lower(game.black.username)
        isWhite      == Lower(user) = white_player
        player_color == IF isWhite THEN "white" ELSE "black"
        result       == GetOr(game.white.result, "unknown")
        player_result ==
            IF player_color = "white"
            THEN IF result = "win" THEN "win"
                 ELSE IF result \in {"checkmated", "timeout", "resigned", "abandoned"} THEN "loss"
                 ELSE "draw"
            ELSE IF result = "win" THEN "loss"
                 ELSE IF result \in {"checkmated", "timeout", "resigned", "abandoned"} THEN "win"
                 ELSE "draw"
    IN  [player_color      |-> player_color,
         player_rating     |-> IF isWhite THEN game.white.rating ELSE game.black.rating,
         opponent_username |-> IF isWhite THEN black_player ELSE white_player,
         opponent_rating   |-> IF isWhite THEN game.black.rating ELSE game.white.rating,
         result            |-> player_result,
         termination       |-> result,
         time_control      |-> GetOr(game.time_control, "unknown"),
         opening_moves     |-> OpeningOfPgn[game.pgn].first_moves_str,
         opening_name      |-> OpeningOfPgn[game.pgn].opening_name]

\* analyze_game_result, lines 122-151 (game_analysis.py); the tuple it
\* returns, as a record with the field names of analyze_game
analyze_game_result(game, user) ==
    LET white_player   == Lower(game.white.username)
        black_player   == Lower(game.black.username)
        username_lower == Lower(user)
        matched == IF username_lower = white_player THEN "white"
                   ELSE IF username_lower = black_player THEN "black"
                   ELSE "unknown"
        own   == IF matched = "white" THEN game.white ELSE game.black
        other == IF matched = "white" THEN game.black ELSE game.white
        user_result == GetOr(own.result, "unknown")
        result ==
            IF user_result = "win" THEN "Win"
            ELSE IF user_result \in {"checkmated", "resigned", "timeout", "abandoned"} THEN "Loss"
            ELSE IF user_result \in {"agreed", "repetition", "stalemate", "insufficient"} THEN "Draw"
            ELSE "Unknown"
    IN  IF matched = "unknown"
        THEN [player_color |-> "unknown", player_rating |-> "N/A",
              opponent_username |-> "N/A", opponent_rating |-> "N/A",
              result |-> "unknown", termination |-> "unknown"]
        ELSE [player_color      |-> matched,
              player_rating     |-> own.rating,
              opponent_username |-> other.username,
              opponent_rating   |-> other.rating,
              result            |-> result,
              termination       |-> user_result]

\* analyze_user_games, lines 759-762: the tally over analyzed_games
AdvancedTally(rows) ==
    [total_games |-> Len(rows),
     wins   |-> CountResult(rows, "win"),
     losses |-> CountResult(rows, "loss"),
     draws  |-> CountResult(rows, "draw")]

\* analyze_user_games, lines 783-788: stats['count'] of each opening of
\* the rollup
OpeningCounts(rows) ==
    {Cardinality({j \in DOMAIN rows : rows[j].opening_name = rows[i].opening_name}) :
        i \in DOMAIN rows}

\* analyze_user_games: the denominators of the divisions of lines 764-834:
\* total_games for the win rate when it is positive, total_games for the
\* loss and draw rates and for the share of each time control, the count of
\* each opening when it is positive, the number of ratings when there are
\* ratings (the subject's rating is present in every game of AnalyzeUniverse)
AdvancedDivisors(rows) ==
    (IF Len(rows) > 0 THEN {Len(rows)} ELSE {})
        \cup {Len(rows)}
        \cup (IF rows # << >> THEN {Len(rows)} ELSE {})
        \cup {c \in OpeningCounts(rows) : c > 0}
        \cup (IF rows # << >> THEN {Len(rows)} ELSE {})

\* analyze_games: every division of lines 250-261 is under `if total_games > 0`
\* or `if accuracy_count > 0`
BasicDivisors(total_games) == IF total_games > 0 THEN {total_games} ELSE {}

\* analyze_games_simplified: the divisions of lines 434-461 are under
\* `if total_games > 0`; the share of each time control, line 467, is
\* divided by total_games for every time control seen, one per game
SimplifiedDivisors(total_games, games_seen) ==
    (IF total_games > 0 THEN {total_games} ELSE {})
        \cup (IF games_seen > 0 THEN {total_games} ELSE {})

\* a division by zero raises ZeroDivisionError and ends the function
AfterDivisions(divisors) == IF 0 \in divisors THEN "crashed" ELSE "report"

\* analyze_games, lines 220-226: one game added to the counters
BasicCount(tally, result) ==
    IF result = "Win" THEN [tally EXCEPT !.wins = @ + 1]
    ELSE IF result = "Loss" THEN [tally EXCEPT !.losses = @ + 1]
    ELSE IF result = "Draw" THEN [tally EXCEPT !.draws = @ + 1]
    ELSE tally

\* analyze_games, line 248: total_games = wins + losses + draws
BasicTotal(tally) == tally.wins + tally.losses + tally.draws

InitMainIdle ==
    /\ args = None
    /\ now = None
    /\ archive = {}
    /\ start_datetime = None
    /\ end_datetime = None
    /\ userIdx = 1
    /\ outcome = "running"
    /\ reports = << >>

InitAnalyze ==
    /\ pc = "analyze_loop"
    /\ variant \in {"advanced", "basic", "simplified"}
    /\ username = Subject
    /\ rawGames = << >>
    /\ analyzed_games = << >>
    /\ stats = IF variant \in {"basic", "simplified"}
               THEN Some([wins |-> 0, losses |-> 0, draws |-> 0])
               ELSE None
    /\ InitMainIdle
    /\ InitFetchIdle
    /\ InitParseIdle
    /\ InitDbIdle
    /\ InitConfigIdle

\* analyze_user_games, lines 735-737: one iteration of the analysis loop
AdvAnalyzeGame ==
    /\ pc = "analyze_loop"
    /\ variant = "advanced"
    /\ Len(rawGames) < MaxGames
    /\ \E game \in AnalyzeUniverse :
          /\ rawGames' = Append(rawGames, game)
          /\ analyzed_games' = Append(analyzed_games, analyze_game(game, username))
    /\ UNCHANGED <<pc, variant, username, stats, mainVars, fetchVars, parseVars, dbVars, configVars>>

\* analyze_user_games, lines 727-729 and 758-764: return early without
\* games, else compute the statistics of the report
AdvComputeStats ==
    /\ pc = "analyze_loop"
    /\ variant = "advanced"
    /\ IF rawGames = << >>
       THEN pc' = "done" /\ UNCHANGED stats
       ELSE /\ pc' = AfterDivisions(AdvancedDivisors(analyzed_games))
            /\ stats' = Some([tally |-> AdvancedTally(analyzed_games),
                              divisors |-> AdvancedDivisors(analyzed_games)])
    /\ UNCHANGED <<variant, username, rawGames, analyzed_games, mainVars, fetchVars, parseVars, dbVars, configVars>>

\* analyze_games, lines 214-245: one iteration, a row printed and counted
BasicAnalyzeGame ==
    /\ pc = "analyze_loop"
    /\ variant = "basic"
    /\ Len(rawGames) < MaxGames
    /\ \E game \in AnalyzeUniverse :
          LET row == analyze_game_result(game, username) IN
          /\ rawGames' = Append(rawGames, game)
          /\ analyzed_games' = Append(analyzed_games, row)
          /\ stats' = Some(BasicCount(Val(stats), row.result))
    /\ UNCHANGED <<pc, variant, username, mainVars, fetchVars, parseVars, dbVars, configVars>>

\* analyze_games, lines 194-196 and 247-261: return early without games,
\* else the summary
BasicSummary ==
    /\ pc = "analyze_loop"
    /\ variant = "basic"
    /\ IF rawGames = << >>
       THEN pc' = "done" /\ UNCHANGED stats
       ELSE /\ pc' = AfterDivisions(BasicDivisors(BasicTotal(Val(stats))))
            /\ stats' = Some([tally |-> [total_games |-> BasicTotal(Val(stats)),
                                         wins   |-> Val(stats).wins,
                                         losses |-> Val(stats).losses,
                                         draws  |-> Val(stats).draws],
                              divisors |-> BasicDivisors(BasicTotal(Val(stats)))])
    /\ UNCHANGED <<variant, username, rawGames, analyzed_games, mainVars, fetchVars, parseVars, dbVars, configVars>>

\* analyze_games_simplified, lines 384-426: one iteration, a row printed
\* and counted
SimplifiedAnalyzeGame ==
    /\ pc = "analyze_loop"
    /\ variant = "simplified"
    /\ Len(rawGames) < MaxGames
    /\ \E game \in AnalyzeUniverse :
          LET row == analyze_game_result(game, username) IN
          /\ rawGames' = Append(rawGames, game)
          /\ analyzed_games' = Append(analyzed_games, row)
          /\ stats' = Some(BasicCount(Val(stats), row.result))
    /\ UNCHANGED <<pc, variant, username, mainVars, fetchVars, parseVars, dbVars, configVars>>

\* analyze_games_simplified, lines 364-366 and 428-468: return early
\* without games, else the summary and the time control distribution
SimplifiedSummary ==
    /\ pc = "analyze_loop"
    /\ variant = "simplified"
    /\ IF rawGames = << >>
       THEN pc' = "done" /\ UNCHANGED stats
       ELSE LET total_games == BasicTotal(Val(stats))
                divisors == SimplifiedDivisors(total_games, Len(rawGames))
            IN  /\ pc' = AfterDivisions(divisors)
                /\ stats' = Some([tally |-> [total_games |-> total_games,
                                             wins   |-> Val(stats).wins,
                                             losses |-> Val(stats).losses,
                                             draws  |-> Val(stats).draws],
                                  divisors |-> divisors])
    /\ UNCHANGED <<variant, username, rawGames, analyzed_games, mainVars, fetchVars, parseVars, dbVars, configVars>>

NextAnalyze ==
    \/ AdvAnalyzeGame
    \/ AdvComputeStats
    \/ BasicAnalyzeGame
    \/ BasicSummary
    \/ SimplifiedAnalyzeGame
    \/ SimplifiedSummary

SpecAnalyze == InitAnalyze /\ [][NextAnalyze]_vars

(***************************************************************************)
(* extract_opening_moves driven on its own: SpecParse.                     *)
(***************************************************************************)

\* the characters of the blobs enumerated exhaustively
PgnAlphabet == {"1", ".", " ", "e", "\n", "[", "{", "}"}

BoundedTexts == UNION {[1 .. n -> PgnAlphabet] : n \in 0 .. MaxPgnLen}

\* move texts made of numbered moves, as the game source writes them
\* '1. e4+ e5# 2. Qh5?! Nc6!': moves that carry check, mate and annotation glyphs
GlyphMoves ==
    <<"1", ".", " ", "e", "4", "+", " ", "e", "5", "#", " ", "2", ".", " ", "Q", "h", "5", "?", "!", " ", "N", "c", "6", "!">>
\* '1. e4 1... e5 2. Nf3 2... Nc6': each black move under its own number marker
MarkedMoves ==
    <<"1", ".", " ", "e", "4", " ", "1", ".", ".", ".", " ", "e", "5", " ", "2", ".", " ", "N", "f", "3", " ", "2", ".", ".", ".", " ", "N", "c", "6">>
\* '1. e4 e5 2. Nf3 1-0': a game that ends after White's second move, with its result marker
ResultMoves ==
    <<"1", ".", " ", "e", "4", " ", "e", "5", " ", "2", ".", " ", "N", "f", "3", " ", "1", "-", "0">>
\* '1. e4 e5 2. Nf3 Nc6 3. Bb5 a6 4. Ba4': four numbered moves
FourMoves ==
    <<"1", ".", " ", "e", "4", " ", "e", "5", " ", "2", ".", " ", "N", "f", "3", " ", "N", "c", "6", " ", "3", ".", " ", "B", "b", "5", " ", "a", "6", " ", "4", ".", " ", "B", "a", "4">>
NumberedMoveTexts == {GlyphMoves, MarkedMoves, ResultMoves, FourMoves}

\* blobs of the shapes the game source delivers, and a few odd ones
CuratedTexts == {
    \* '1. e4 e5 2. Nf3 Nc6 3. Bb5 a6 4. Ba4'
    <<"1", ".", " ", "e", "4", " ", "e", "5", " ", "2", ".", " ", "N", "f", "3", " ", "N", "c", "6", " ", "3", ".", " ", "B", "b", "5", " ", "a", "6", " ", "4", ".", " ", "B", "a", "4">>,
    \* '[Event "x"]\n\n1. e4 {[%clk 0:03:00]} 1... e5 {[%clk 0:02:58]} 2. Nf3 1-0'
    <<"[", "E", "v", "e", "n", "t", " ", "\"", "x", "\"", "]", "\n", "\n", "1", ".", " ", "e", "4", " ", "{", "[", "%", "c", "l", "k", " ", "0", ":", "0", "3", ":", "0", "0", "]", "}", " ", "1", ".", ".", ".", " ", "e", "5", " ", "{", "[", "%", "c", "l", "k", " ", "0", ":", "0", "2", ":", "5", "8", "]", "}", " ", "2", ".", " ", "N", "f", "3", " ", "1", "-", "0">>,
    \* '1. c4'
    <<"1", ".", " ", "c", "4">>,
    \* '[Event "x"]\n[Date "2024.01.15"]\n'
    <<"[", "E", "v", "e", "n", "t", " ", "\"", "x", "\"", "]", "\n", "[", "D", "a", "t", "e", " ", "\"", "2", "0", "2", "4", ".", "0", "1", ".", "1", "5", "\"", "]", "\n">>,
    \* '1-0'
    <<"1", "-", "0">>,
    \* 'N/A'
    <<"N", "/", "A">>,
    \* '1. N/A'
    <<"1", ".", " ", "N", "/", "A">>,
    \* '1. e4+ e5# 2. Qh5?! Nc6!'
    <<"1", ".", " ", "e", "4", "+", " ", "e", "5", "#", " ", "2", ".", " ", "Q", "h", "5", "?", "!", " ", "N", "c", "6", "!">>,
    \* ' [Date "2024.01.15"]'
    <<" ", "[", "D", "a", "t", "e", " ", "\"", "2", "0", "2", "4", ".", "0", "1", ".", "1", "5", "\"", "]">>,
    \* '1. e4 %clk 0:03:00 e5'
    <<"1", ".", " ", "e", "4", " ", "%", "c", "l", "k", " ", "0", ":", "0", "3", ":", "0", "0", " ", "e", "5">>,
    \* '1. d4 Nf6 2. c4 e6'
    <<"1", ".", " ", "d", "4", " ", "N", "f", "6", " ", "2", ".", " ", "c", "4", " ", "e", "6">>,
    \* '1.e4 c5\n2.Nf3'
    <<"1", ".", "e", "4", " ", "c", "5", "\n", "2", ".", "N", "f", "3">>,
    \* '12. Kh1 {unclosed'
    <<"1", "2", ".", " ", "K", "h", "1", " ", "{", "u", "n", "c", "l", "o", "s", "e", "d">> }
        \cup NumberedMoveTexts

PgnInputs == {NoPgn, NotAStr} \cup {Str(t) : t \in BoundedTexts \cup CuratedTexts}

InitParse ==
    /\ pc = "parse"
    /\ pgn \in PgnInputs
    /\ opening = None
    /\ classifyCalls = << >>
    /\ labels = << >>
    /\ InitMainIdle
    /\ InitFetchIdle
    /\ InitAnalyzeIdle
    /\ InitDbIdle
    /\ InitConfigIdle

\* analyze_game, line 625: opening_moves, opening_name = extract_opening_moves(pgn)
ExtractOpeningMoves ==
    /\ pc = "parse"
    /\ LET r == extract_opening_moves(pgn) IN
          /\ opening' = Some(<<r.first_moves_str, r.opening_name>>)
          /\ classifyCalls' = classifyCalls \o r.calls
          /\ labels' = IF r.calls = << >> THEN labels ELSE Append(labels, r.opening_name)
    /\ pc' = "parsed"
    /\ UNCHANGED <<pgn, mainVars, fetchVars, analyzeVars, dbVars, configVars>>

NextParse == ExtractOpeningMoves

SpecParse == InitParse /\ [][NextParse]_vars

(***************************************************************************)
(* classify_opening called on its own: SpecClassify.                       *)
(***************************************************************************)

\* bound of the inputs: calls of classify_opening in one run
MaxCalls == 2

\* first moves of White and of Black (none: the game ended after one ply),
\* and continuations
WhiteFirst ==
    {<<"e", "4">>, <<"d", "4">>, <<"N", "f", "3">>, <<"c", "4">>, <<"f", "4">>, <<"g", "3">>}
BlackFirst ==
    {<< >>, <<"e", "5">>, <<"c", "5">>, <<"d", "5">>, <<"N", "f", "6">>}
Continuations ==
    {<< >>,
     <<"2", ".", " ", "N", "f", "3", " ", "N", "c", "6", " ", "3", ".", " ", "B", "c", "4", " ", "B", "c", "5">>,
     <<"2", ".", " ", "c", "4">>}

\* "1. <white> <black> <continuation>", as extract_opening_moves joins it
MovePrefix(w, b, c) ==
    <<"1", ".", " ">> \o w \o (IF b = << >> THEN << >> ELSE <<" ">> \o b)
        \o (IF c = << >> THEN << >> ELSE <<" ">> \o c)

\* prefixes in capitals, with the rules' patterns out of their usual order,
\* without a move number, and the empty one
OddPrefixes ==
    {<< >>,
     <<"1", ".", " ", "E", "4", " ", "E", "5", " ", "2", ".", " ", "N", "F", "3", " ", "N", "C", "6">>,
     <<"1", ".", " ", "e", "4", " ", "e", "5", " ", "2", ".", " ", "N", "f", "3", " ", "N", "c", "6">>,
     <<"1", ".", " ", "e", "4", " ", "e", "5", " ", "2", ".", " ", "B", "c", "4", " ", "N", "c", "6", " ", "3", ".", " ", "B", "b", "5">>,
     <<"1", ".", " ", "e", "4", " ", "e", "5", " ", "2", ".", " ", "B", "b", "5">>,
     <<"1", ".", " ", "e", "4", " ", "e", "6">>,
     <<"1", ".", " ", "e", "4", " ", "c", "6">>,
     <<"1", ".", " ", "d", "4", " ", "d", "5", " ", "2", ".", " ", "e", "4", " ", "e", "5">>,
     <<"1", ".", " ", "N", "c", "3", " ", "N", "f", "6", " ", "2", ".", " ", "N", "f", "3">>,
     <<"2", ".", " ", "c", "4">>,
     <<"1", ".", " ", "b", "3", " ", "e", "5", " ", "2", ".", " ", "f", "4">>,
     <<"N", "/", "A">>,
     <<"1", ".", " ", "d", "4", " ", "N", "f", "6", " ", "2", ".", " ", "e", "4", " ", "c", "5">>}

\* every first move pair alone, the pawn openings continued, and the odd
\* prefixes
Prefixes ==
    {MovePrefix(w, b, << >>) : w \in WhiteFirst, b \in BlackFirst}
        \cup {MovePrefix(w, b, c) : w \in {<<"e", "4">>, <<"d", "4">>},
                                    b \in BlackFirst \ {<< >>, <<"c", "5">>},
                                    c \in Continuations}
        \cup OddPrefixes

InitClassify ==
    /\ pc = "classify"
    /\ classifyCalls = << >>
    /\ labels = << >>
    /\ pgn = None
    /\ opening = None
    /\ InitMainIdle
    /\ InitFetchIdle
    /\ InitAnalyzeIdle
    /\ InitDbIdle
    /\ InitConfigIdle

\* one call classify_opening(moves_str)
ClassifyOpening ==
    /\ pc = "classify"
    /\ Len(classifyCalls) < MaxCalls
    /\ \E moves_str \in Prefixes :
          /\ classifyCalls' = Append(classifyCalls, moves_str)
          /\ labels' = Append(labels, classify_opening(moves_str))
    /\ UNCHANGED <<pc, pgn, opening, mainVars, fetchVars, analyzeVars, dbVars, configVars>>

NextClassify == ClassifyOpening

SpecClassify == InitClassify /\ [][NextClassify]_vars

(***************************************************************************)
(* The database configuration: configure_database and                      *)
(* load_database_config, driven on their own: SpecConfig.                  *)
(***************************************************************************)

MaxConfigCalls == 2
MaxLoads == 2

\* DEFAULT_DATABASE_CONFIG, lines 101-108 (the fields get_database_connection
\* requires of a server; the credentials are left out)
DEFAULT_DATABASE_CONFIG ==
    [server |-> "your-server.database.windows.net", database |-> "your-database"]

\* a database_config.json the user has filled in
UserConfig == [server |-> "prod.database.windows.net", database |-> "chess"]

\* database_config.json: missing, not valid JSON, or a configuration
FileMissing == [kind |-> "missing"]
FileInvalid == [kind |-> "invalid"]
FileWith(config) == [kind |-> "json", config |-> config]
ConfigFiles == {FileMissing, FileInvalid, FileWith(UserConfig)}

\* the arguments of a call of configure_database: none given, the call of
\* test_script.py line 19, or the server alone
ConfigureArgs ==
    {[server |-> None, database |-> None, username |-> None, password |-> None],
     [server |-> Some("test-server"), database |-> Some("test-db"),
      username |-> Some("test-user"), password |-> Some("test-pass")],
     [server |-> Some("test-server"), database |-> None, username |-> None, password |-> None]}

\* a configure_database that stores the server and database it was given
configure_database_stores(config, a) ==
    [server   |-> IF IsNone(a.server) THEN config.server ELSE Val(a.server),
     database |-> IF IsNone(a.database) THEN config.database ELSE Val(a.database)]

\* configure_database, lines 179-191: the module's configuration after the
\* call; the body only prints the deprecation note
configure_database(config, a) == config

\* load_database_config, lines 118-129: the configuration returned for the
\* contents of the file
load_database_config(file, default) ==
    IF file.kind = "missing" THEN default
    ELSE IF file.kind = "invalid" THEN default
    ELSE file.config

\* create_database_config_template, lines 134-136: the file after the
\* template was written, or unchanged when the write failed
create_database_config_template(file, default, written) ==
    IF written THEN FileWith(default) ELSE file

InitConfig ==
    /\ pc = "config"
    /\ default_config = Some(DEFAULT_DATABASE_CONFIG)
    /\ config_file \in ConfigFiles
    /\ loaded_config = << >>
    /\ configure_calls = << >>
    /\ InitMainIdle
    /\ InitFetchIdle
    /\ InitAnalyzeIdle
    /\ InitParseIdle
    /\ InitDbIdle

\* one call of configure_database(server, database, username, password)
ConfigureDatabase ==
    /\ pc = "config"
    /\ Len(configure_calls) < MaxConfigCalls
    /\ \E a \in ConfigureArgs :
          /\ configure_calls' = Append(configure_calls, a)
          /\ default_config' = Some(configure_database(Val(default_config), a))
    /\ UNCHANGED <<pc, config_file, loaded_config>>
    /\ UNCHANGED <<mainVars, fetchVars, analyzeVars, parseVars, dbVars>>

\* get_database_connection, line 205: load_database_config, which writes
\* the template when the file is missing
LoadDatabaseConfig ==
    /\ pc = "config"
    /\ Len(loaded_config) < MaxLoads
    /\ loaded_config' = Append(loaded_config,
            [config |-> load_database_config(config_file, Val(default_config)),
             file   |-> config_file,
             calls  |-> Len(configure_calls)])
    /\ IF config_file.kind = "missing"
       THEN \E written \in BOOLEAN :
               config_file' = create_database_config_template(config_file, Val(default_config), written)
       ELSE UNCHANGED config_file
    /\ UNCHANGED <<pc, default_config, configure_calls>>
    /\ UNCHANGED <<mainVars, fetchVars, analyzeVars, parseVars, dbVars>>

NextConfig ==
    \/ ConfigureDatabase
    \/ LoadDatabaseConfig

SpecConfig == InitConfig /\ [][NextConfig]_vars

(***************************************************************************)
(* get_last_50_games (game_analysis.py) and get_recent_games               *)
(* (advanced_game_analysis_fixed.py), driven on their own: SpecRecent.     *)
(***************************************************************************)

\* get_last_50_games: `range(6)` and the 50 of lines 45 and 53
Last50Months == 6
Last50 == 50
\* get_recent_games (fixed): `range(12)`
FixedMonths == 12

\* bound: the games a month of the source holds are 0, GamesPerMonth or,
\* in the current month, twice as many
GamesPerMonth == 30

\* the i-th game that ended in (year, month): one per hour from the first
\* hour of the month
WalkGame(year, month, i) ==
    [id |-> year * 10000 + month * 100 + i,
     end_time |-> Some(Timestamp(DateTime(year, month, 1, 0, 0, 0, 0)) + 3600 * i)]

\* what the source holds: the number of games of each of the three months
\* up to March 2024; a monthly archive lists its games oldest first
WalkArchives ==
    {current @@ earlier :
        current \in [{<<2024, 3>>} -> {0, GamesPerMonth, 2 * GamesPerMonth}],
        earlier \in [{<<2024, 2>>, <<2024, 1>>} -> {0, GamesPerMonth}]}

\* datetime.now(): after every game of the source has ended
WalkNows == {DateTime(2024, 3, 31, 12, 0, 0, 0), DateTime(2024, 3, 15, 12, 0, 0, 0)}

\* monthly_games.json.get('games', []) of a fetch that succeeds
WalkMonthlyData(held, year, month) ==
    IF <<year, month>> \in DOMAIN held
    THEN [i \in 1 .. held[<<year, month>>] |-> WalkGame(year, month, i)]
    ELSE << >>

\* the num_games the fixed get_recent_games is called with
WalkNumGames == {0, 2, Last50}

\* games[-n:] if len(games) >= n else games; games[-0:] is the whole list
LastSlice(gs, n) ==
    IF Len(gs) >= n /\ n > 0 THEN SubSeq(gs, Len(gs) - n + 1, Len(gs)) ELSE gs

\* the number of buckets the walk of a variant visits at most
WalkMonths(v) == IF v = "last50" THEN Last50Months ELSE FixedMonths

InitRecent ==
    /\ pc = "walk_fetch"
    /\ variant \in {"last50", "fixed"}
    /\ args \in (IF variant = "last50" THEN {[num_games |-> Last50]}
                 ELSE [num_games : WalkNumGames])
    /\ now \in WalkNows
    /\ archive \in WalkArchives
    /\ start_datetime = None
    /\ end_datetime = None
    /\ userIdx = 1
    /\ outcome = "running"
    /\ reports = << >>
    /\ username = ""
    /\ rawGames = << >>
    /\ analyzed_games = << >>
    /\ stats = None
    /\ InitFetchIdle
    /\ InitParseIdle
    /\ InitDbIdle
    /\ InitConfigIdle

\* one bucket of the walk: get_last_50_games lines 32-50, get_recent_games
\* (fixed) lines 244-262
WalkFetchMonth ==
    /\ pc = "walk_fetch"
    /\ LET ym == UnfilteredBucket(now, month_offset)
           monthly_data == WalkMonthlyData(archive, ym[1], ym[2])
           last == WalkMonths(variant) - 1
       IN  /\ fetchLog' = Append(fetchLog, ym)
           /\ fetchCount' = fetchCount + 1
           /\ \E ok \in BOOLEAN :
                IF ok
                THEN /\ games' = games \o monthly_data
                     /\ fetchedOk' = fetchedOk \o monthly_data
                     /\ IF Len(games') >= args.num_games
                        THEN pc' = "walk_return" /\ UNCHANGED month_offset
                        ELSE /\ month_offset' = month_offset + 1
                             /\ pc' = IF month_offset' > last THEN "walk_return" ELSE "walk_fetch"
                ELSE /\ month_offset' = AfterFetchError(month_offset, last)
                     /\ pc' = IF month_offset' > last THEN "walk_return" ELSE "walk_fetch"
                     /\ UNCHANGED <<games, fetchedOk>>
    /\ UNCHANGED <<mainVars, months_to_search, monthIdx, recent, analyzeVars, parseVars, dbVars, configVars>>

\* get_last_50_games line 53, get_recent_games (fixed) line 265: the list
\* returned
WalkReturn ==
    /\ pc = "walk_return"
    /\ recent' = LastSlice(games, args.num_games)
    /\ pc' = "done"
    /\ UNCHANGED <<mainVars, months_to_search, monthIdx, month_offset, games, fetchLog,
                   fetchedOk, fetchCount, analyzeVars, parseVars, dbVars, configVars>>

NextRecent ==
    \/ WalkFetchMonth
    \/ WalkReturn

SpecRecent == InitRecent /\ [][NextRecent]_vars

(***************************************************************************)
(* The pool and the merge of get_recent_games over a fixed set of buckets  *)
(* fetched in any order: SpecMerge.                                        *)
(***************************************************************************)

\* the buckets fetched
MergeBuckets == {<<2024, 1>>, <<2024, 2>>, <<2024, 3>>}

\* every order in which they can be fetched
BucketOrders ==
    {order \in [1 .. 3 -> MergeBuckets] : \A i, j \in 1 .. 3 : i # j => order[i] # order[j]}

\* the games the source may hold for them, oldest first: games 11 and 12
\* end in the same second of January, games 13 (February) and 15 (March)
\* carry no end_time
MergeUniverseSeq ==
    << Filed([id |-> 11, end_time |-> At(2024, 1, 31, 23, 59, 0)], 2024, 1),
       Filed([id |-> 12, end_time |-> At(2024, 1, 31, 23, 59, 0)], 2024, 1),
       Filed([id |-> 13, end_time |-> None], 2024, 2),
       Filed([id |-> 14, end_time |-> At(2024, 2, 10, 12, 0, 0)], 2024, 2),
       Filed([id |-> 15, end_time |-> None], 2024, 3),
       Filed([id |-> 16, end_time |-> At(2024, 3, 1, 9, 0, 0)], 2024, 3) >>

MergeUniverse == {MergeUniverseSeq[i] : i \in DOMAIN MergeUniverseSeq}

\* monthly_games.json.get('games', []) of a bucket
MergeMonthlyData(held, year, month) ==
    GamesOf(SelectSeq(MergeUniverseSeq,
                      LAMBDA f : f \in held /\ f.year = year /\ f.month = month))

\* the pool after the buckets of an order were fetched: games.extend for
\* each
RECURSIVE PoolOf(_, _)
PoolOf(held, order) ==
    IF order = << >> THEN << >>
    ELSE MergeMonthlyData(held, order[1][1], order[1][2]) \o PoolOf(held, Tail(order))

InitMerge ==
    /\ pc = "pool_fetch"
    /\ variant = "merge"
    /\ args \in [num_games : 0 .. MaxNumGames]
    /\ archive \in SUBSET MergeUniverse
    /\ months_to_search \in BucketOrders
    /\ monthIdx = 1
    /\ month_offset = 0
    /\ games = << >>
    /\ recent = << >>
    /\ fetchLog = << >>
    /\ fetchedOk = << >>
    /\ fetchCount = 0
    /\ now = None
    /\ start_datetime = None
    /\ end_datetime = None
    /\ userIdx = 1
    /\ outcome = "running"
    /\ reports = << >>
    /\ username = ""
    /\ rawGames = << >>
    /\ analyzed_games = << >>
    /\ stats = None
    /\ InitParseIdle
    /\ InitDbIdle
    /\ InitConfigIdle

\* get_recent_games, lines 436-444 and 454-459: one bucket fetched and
\* added to the pool
PoolFetchBucket ==
    /\ pc = "pool_fetch"
    /\ LET ym == months_to_search[monthIdx]
           monthly_data == MergeMonthlyData(archive, ym[1], ym[2])
       IN  /\ fetchLog' = Append(fetchLog, ym)
           /\ fetchCount' = fetchCount + 1
           /\ games' = games \o monthly_data
           /\ fetchedOk' = fetchedOk \o monthly_data
           /\ monthIdx' = monthIdx + 1
           /\ pc' = IF monthIdx' > Len(months_to_search) THEN "pool_merge" ELSE "pool_fetch"
    /\ UNCHANGED <<mainVars, months_to_search, month_offset, recent, analyzeVars, parseVars, dbVars, configVars>>

\* get_recent_games, lines 468-474: sort, truncate and return
PoolMergeAndReturn ==
    /\ pc = "pool_merge"
    /\ recent' = MergeGames(games, args.num_games)
    /\ pc' = "done"
    /\ UNCHANGED <<mainVars, months_to_search, monthIdx, month_offset, games, fetchLog,
                   fetchedOk, fetchCount, analyzeVars, parseVars, dbVars, configVars>>

NextMerge ==
    \/ PoolFetchBucket
    \/ PoolMergeAndReturn

SpecMerge == InitMerge /\ [][NextMerge]_vars

(***************************************************************************)
(* SpecUnfiltered: get_recent_games of advanced_game_analysis.py without   *)
(* a date filter, over archives in which a month holds fewer games than    *)
(* asked for, so that the walk goes on to the next 30-day offset.          *)
(***************************************************************************)

\* archives of a few games of March 2024, January 2024 and December 2023
SparseArchives == SUBSET {f \in GameUniverse : f.game.id \in {1, 2, 5, 8, 9}}

InitUnfiltered ==
    /\ pc = "get_recent_games"
    /\ variant = "unfiltered"
    /\ args \in [num_games : 0 .. MaxNumGames]
    /\ now \in Nows
    /\ archive \in SparseArchives
    /\ start_datetime = None
    /\ end_datetime = None
    /\ userIdx = 1
    /\ outcome = "running"
    /\ reports = << >>
    /\ username = ""
    /\ rawGames = << >>
    /\ analyzed_games = << >>
    /\ stats = None
    /\ InitFetchIdle
    /\ InitParseIdle
    /\ InitDbIdle
    /\ InitConfigIdle

NextUnfiltered ==
    \/ GetRecentGamesPlan
    \/ FetchUnfilteredMonth
    \/ MergeAndReturn

SpecUnfiltered == InitUnfiltered /\ [][NextUnfiltered]_vars

(***************************************************************************)
(* The opening rollup of analyze_user_games, in advanced_game_analysis.py  *)
(* and in advanced_game_analysis_fixed.py, driven on its own: SpecRollup.  *)
(***************************************************************************)

\* bound: the analyzed games folded by one run
MaxRows == 3

RollupLabels == {"Sicilian Defense", "Other Opening", "Unknown"}
RollupResults == {"win", "loss", "draw"}

\* {'count': 0, 'wins': 0, 'losses': 0, 'draws': 0}
NewOpening == [count |-> 0, wins |-> 0, losses |-> 0, draws |-> 0]

\* game['result'] + 's' (advanced_game_analysis_fixed.py line 567)
ResultPlusS == [r \in RollupResults |->
                   IF r = "win" THEN "wins" ELSE IF r = "loss" THEN "losss" ELSE "draws"]

\* the key of the counter that takes the game: lines 791-796 choose it by
\* if/elif on the result, the fixed script builds it from the result
CounterKey(v, result) ==
    IF v = "fixed" THEN ResultPlusS[result]
    ELSE IF result = "win" THEN "wins"
    ELSE IF result = "loss" THEN "losses"
    ELSE "draws"

\* openings[opening][key] += 1
Bump(entry, key) ==
    IF key = "wins" THEN [entry EXCEPT !.wins = @ + 1]
    ELSE IF key = "losses" THEN [entry EXCEPT !.losses = @ + 1]
    ELSE [entry EXCEPT !.draws = @ + 1]

\* one iteration of the fold: the entry of the opening is created if
\* missing, its count is incremented, then the counter of the result; a
\* key the entry does not have raises KeyError after the count was added
RollupStep(v, openings, row) ==
    LET label   == row.opening_name
        entry   == IF label \in DOMAIN openings THEN openings[label] ELSE NewOpening
        counted == [entry EXCEPT !.count = @ + 1]
        key     == CounterKey(v, row.result)
    IN  IF key \in {"wins", "losses", "draws"}
        THEN [raised |-> FALSE,
              openings |-> [o \in DOMAIN openings \cup {label} |->
                               IF o = label THEN Bump(counted, key) ELSE openings[o]]]
        ELSE [raised |-> TRUE,
              openings |-> [o \in DOMAIN openings \cup {label} |->
                               IF o = label THEN counted ELSE openings[o]]]

InitRollup ==
    /\ pc = "rollup"
    /\ variant \in {"advanced", "fixed"}
    /\ username = ""
    /\ rawGames = << >>
    /\ analyzed_games = << >>
    /\ stats = Some(<< >>)
    /\ InitMainIdle
    /\ InitFetchIdle
    /\ InitParseIdle
    /\ InitDbIdle
    /\ InitConfigIdle

\* analyze_user_games, lines 783-796 (fixed script: 562-567): the next
\* analyzed game is folded into openings
RollupGame ==
    /\ pc = "rollup"
    /\ Len(analyzed_games) < MaxRows
    /\ \E opening_name \in RollupLabels, result \in RollupResults :
          LET row == [opening_name |-> opening_name, result |-> result]
              r   == RollupStep(variant, Val(stats), row)
          IN  /\ analyzed_games' = Append(analyzed_games, row)
              /\ stats' = Some(r.openings)
              /\ pc' = IF r.raised THEN "crashed" ELSE "rollup"
    /\ UNCHANGED <<variant, username, rawGames, mainVars, fetchVars, parseVars, dbVars, configVars>>

\* the loop ends and the report goes on with the rollup
RollupDone ==
    /\ pc = "rollup"
    /\ pc' = "report"
    /\ UNCHANGED <<analyzeVars, mainVars, fetchVars, parseVars, dbVars, configVars>>

NextRollup ==
    \/ RollupGame
    \/ RollupDone

SpecRollup == InitRollup /\ [][NextRollup]_vars

(***************************************************************************)
(* analyze_user_games step by step, with the calls it makes on the         *)
(* database connection: SpecPersist.                                       *)
(***************************************************************************)

\* the lists get_recent_games may return to it
FetchedLists ==
    {<< >>,
     <<RawGame(9, At(2024, 3, 1, 10, 0, 0))>>,
     <<RawGame(9, At(2024, 3, 1, 10, 0, 0)), RawGame(8, At(2024, 3, 1, 9, 0, 0))>>,
     <<RawGame(9, At(2024, 3, 1, 10, 0, 0)), RawGame(8, At(2024, 3, 1, 9, 0, 0)),
       RawGame(10, None)>>}

\* the calls made on the database, as records of db_log
Connected == [op |-> "connect", game |-> 0, outcome |-> "ok"]
StoreAttempt(id, result) == [op |-> "store", game |-> id, outcome |-> result]
Refresh(result) == [op |-> "refresh", game |-> 0, outcome |-> result]
ReadBack == [op |-> "read_back", game |-> 0, outcome |-> "ok"]
Closed == [op |-> "close", game |-> 0, outcome |-> "ok"]

\* db_connection is set: get_database_connection returned a connection
HasConnection == db_log # << >> /\ db_log[1] = Connected

\* a store that is tried once more when it failed
StoreRetried(log, id, result) ==
    IF result = "failed"
    THEN log \o <<StoreAttempt(id, result), StoreAttempt(id, result)>>
    ELSE Append(log, StoreAttempt(id, result))

\* lines 740-744: one call of store_game_in_database for the game, whose
\* result is only printed
StoreOnce(log, id, result) == Append(log, StoreAttempt(id, result))

\* lines 727-729: `if not games: return`, the connection left as it is
AfterNoGames(log) == log

InitPersist ==
    /\ pc = "au_connect"
    /\ variant = "persist"
    /\ args \in [use_database : BOOLEAN]
    /\ recent \in FetchedLists
    /\ db_log = << >>
    /\ stored = << >>
    /\ processed = << >>
    /\ username = ""
    /\ rawGames = << >>
    /\ analyzed_games = << >>
    /\ stats = None
    /\ now = None
    /\ archive = {}
    /\ start_datetime = None
    /\ end_datetime = None
    /\ userIdx = 1
    /\ outcome = "running"
    /\ reports = << >>
    /\ months_to_search = << >>
    /\ monthIdx = 1
    /\ month_offset = 0
    /\ games = << >>
    /\ fetchLog = << >>
    /\ fetchedOk = << >>
    /\ fetchCount = 0
    /\ InitParseIdle
    /\ InitConfigIdle

\* lines 702-709: get_database_connection when save_to_database; it returns
\* a connection or None and raises nothing
AuConnect ==
    /\ pc = "au_connect"
    /\ \E connected \in (IF args.use_database THEN BOOLEAN ELSE {FALSE}) :
          db_log' = IF connected THEN <<Connected>> ELSE << >>
    /\ pc' = "au_fetch"
    /\ UNCHANGED <<stored, processed, mainVars, fetchVars, analyzeVars, parseVars, configVars>>

\* lines 725-731: the games arrive; return at once when there are none
AuFetch ==
    /\ pc = "au_fetch"
    /\ IF recent = << >>
       THEN pc' = "returned" /\ db_log' = AfterNoGames(db_log)
       ELSE pc' = "au_loop" /\ UNCHANGED db_log
    /\ UNCHANGED <<stored, processed, mainVars, fetchVars, analyzeVars, parseVars, configVars>>

\* lines 735-744: the next game is analyzed and, with a connection, stored
AuAnalyzeAndStore ==
    /\ pc = "au_loop"
    /\ Len(analyzed_games) < Len(recent)
    /\ LET game == recent[Len(analyzed_games) + 1] IN
       /\ analyzed_games' = Append(analyzed_games, game)
       /\ IF HasConnection
          THEN \E result \in DbOutcomes :
                  /\ db_log' = StoreOnce(db_log, game.id, result)
                  /\ stored' = IF result = "ok" THEN Append(stored, game.id) ELSE stored
                  /\ pc' = IF result = "raised" THEN "raised" ELSE "au_loop"
          ELSE UNCHANGED <<db_log, stored, pc>>
    /\ UNCHANGED <<processed, mainVars, fetchVars, variant, username, rawGames, stats, parseVars, configVars>>

\* lines 746-751: after the loop, the statistics of the user are refreshed
AuRefresh ==
    /\ pc = "au_loop"
    /\ Len(analyzed_games) = Len(recent)
    /\ IF HasConnection
       THEN \E result \in DbOutcomes :
               /\ db_log' = Append(db_log, Refresh(result))
               /\ pc' = IF result = "raised" THEN "raised" ELSE "au_read_back"
       ELSE pc' = "au_read_back" /\ UNCHANGED db_log
    /\ UNCHANGED <<stored, processed, mainVars, fetchVars, analyzeVars, parseVars, configVars>>

\* lines 753-756: the historical statistics are read back
AuReadBack ==
    /\ pc = "au_read_back"
    /\ db_log' = IF HasConnection THEN Append(db_log, ReadBack) ELSE db_log
    /\ pc' = "au_report"
    /\ UNCHANGED <<stored, processed, mainVars, fetchVars, analyzeVars, parseVars, configVars>>

\* lines 758-862: the statistics are computed and printed
AuReport ==
    /\ pc = "au_report"
    /\ stats' = Some(Report(analyzed_games))
    /\ pc' = "au_close"
    /\ UNCHANGED <<db_log, stored, processed, mainVars, fetchVars, variant, username, rawGames,
                   analyzed_games, parseVars, configVars>>

\* lines 864-869: the connection is closed and the function returns
AuClose ==
    /\ pc = "au_close"
    /\ db_log' = IF HasConnection THEN Append(db_log, Closed) ELSE db_log
    /\ pc' = "returned"
    /\ UNCHANGED <<stored, processed, mainVars, fetchVars, analyzeVars, parseVars, configVars>>

NextPersist ==
    \/ AuConnect
    \/ AuFetch
    \/ AuAnalyzeAndStore
    \/ AuRefresh
    \/ AuReadBack
    \/ AuReport
    \/ AuClose

SpecPersist == InitPersist /\ [][NextPersist]_vars

(***************************************************************************)
(* SpecAccuracy: the accuracies analyze_game reads from the PGN headers    *)
(* and the two averages analyze_user_games reports                         *)
(* (advanced_game_analysis.py, lines 627-645, 798-800 and 829-834).        *)
(***************************************************************************)

MaxAccuracyGames == 2

\* the text before and after the value of an accuracy header
WhiteAccuracyOpen == <<"[", "W", "h", "i", "t", "e", "A", "c", "c", "u", "r", "a", "c", "y", " ", "\"">>
BlackAccuracyOpen == <<"[", "B", "l", "a", "c", "k", "A", "c", "c", "u", "r", "a", "c", "y", " ", "\"">>
HeaderClose == <<"\"", "]">>

\* the length of the run of characters other than '"' from position i on
RECURSIVE NonQuoteRun(_, _)
NonQuoteRun(str, i) ==
    IF i <= Len(str) /\ str[i] # "\"" THEN 1 + NonQuoteRun(str, i + 1) ELSE 0

\* re.search(r'\[WhiteAccuracy "([^"]+)"\]', pgn), resp. BlackAccuracy:
\* group 1 of the leftmost match, None without a match
RECURSIVE HeaderSearch(_, _, _)
HeaderSearch(str, open, i) ==
    IF i > Len(str) THEN None
    ELSE LET first == i + Len(open)
             n == NonQuoteRun(str, first)
         IN  IF /\ StartsWith(From(str, i), open)
                /\ n >= 1
                /\ StartsWith(From(str, first + n), HeaderClose)
             THEN Some(SubSeq(str, first, first + n - 1))
             ELSE HeaderSearch(str, open, i + 1)

\* the number a run of digits denotes
RECURSIVE DigitsValue(_)
DigitsValue(str) ==
    IF str = << >> THEN 0
    ELSE 10 * DigitsValue(SubSeq(str, 1, Len(str) - 1))
         + (CHOOSE d \in 0 .. 9 : ToString(d) = str[Len(str)])

\* float(text) for the texts of AccuracyTexts, in hundredths: digits with at
\* most two decimals give their value, the other texts raise ValueError
\* (None here)
FloatOf(str) ==
    LET whole == DigitRun(str, 1)
        frac == DigitRun(str, whole + 2)
    IN  IF whole >= 1 /\ whole = Len(str)
        THEN Some(100 * DigitsValue(str))
        ELSE IF /\ whole >= 1
                /\ whole < Len(str)
                /\ str[whole + 1] = "."
                /\ frac \in 1 .. 2
                /\ whole + 1 + frac = Len(str)
        THEN Some(100 * DigitsValue(SubSeq(str, 1, whole))
                  + (IF frac = 1 THEN 10 ELSE 1) * DigitsValue(SubSeq(str, whole + 2, Len(str))))
        ELSE None

\* analyze_game, lines 627-645: accuracy_white resp. accuracy_black of a pgn
AccuracyIn(text, open) ==
    IF text = << >> THEN None
    ELSE LET match == HeaderSearch(text, open, 1)
         IN  IF IsNone(match) THEN None ELSE FloatOf(Val(match))

\* values an accuracy header is given: '85.5', '72', 'n/a' and ''
AccuracyTexts == {<<"8", "5", ".", "5">>, <<"7", "2">>, <<"n", "/", "a">>, << >>}

\* a header of a value, or no header
HeaderChoices == {None} \cup {Some(t) : t \in AccuracyTexts}

HeaderLine(open, choice) ==
    IF IsNone(choice) THEN << >> ELSE open \o Val(choice) \o HeaderClose \o <<"\n">>

\* a PGN with the two headers chosen and one move
PgnWith(w, b) ==
    <<"[", "E", "v", "e", "n", "t", " ", "\"", "L", "i", "v", "e", " ", "C", "h", "e", "s", "s", "\"", "]", "\n">> \o HeaderLine(WhiteAccuracyOpen, w)
      \o HeaderLine(BlackAccuracyOpen, b) \o <<"\n", "1", ".", " ", "e", "4", " ", "e", "5", " ", "1", "-", "0">>

\* the headers of the PGNs analyzed: both accuracies, one of them, one that
\* is no number or empty, none
HeaderPairs ==
    {<<Some(<<"8", "5", ".", "5">>), Some(<<"7", "2">>)>>,
     <<Some(<<"7", "2">>), Some(<<"8", "5", ".", "5">>)>>,
     <<Some(<<"8", "5", ".", "5">>), None>>,
     <<None, Some(<<"7", "2">>)>>,
     <<Some(<<"n", "/", "a">>), Some(<<"8", "5", ".", "5">>)>>,
     <<Some(<<"7", "2">>), Some(<< >>)>>,
     <<None, None>>}

AccuracyPgns == {PgnWith(hp[1], hp[2]) : hp \in HeaderPairs} \cup {<< >>}

\* raw games of Alice and Bob, either of them White
AccuracyGames ==
    {[white |-> [username |-> sides[1]], black |-> [username |-> sides[2]], pgn |-> text] :
        sides \in {<<Alice, Bob>>, <<Bob, Alice>>}, text \in AccuracyPgns}

\* analyze_game, lines 591-604 and 627-645: the side of the subject and the
\* two accuracies
AccuracyRow(game, user) ==
    [player_color   |-> IF Lower(user) = Lower(game.white.username) THEN "white" ELSE "black",
     accuracy_white |-> AccuracyIn(game.pgn, WhiteAccuracyOpen),
     accuracy_black |-> AccuracyIn(game.pgn, BlackAccuracyOpen)]

AccuracyField(row, color) ==
    IF color = "white" THEN row.accuracy_white ELSE row.accuracy_black

\* a pool of the games the subject played with that color only
RECURSIVE AccuraciesOwnColor(_, _)
AccuraciesOwnColor(rows, color) ==
    IF rows = << >> THEN << >>
    ELSE (IF ~IsNone(AccuracyField(rows[1], color)) /\ rows[1].player_color = color
          THEN <<Val(AccuracyField(rows[1], color))>> ELSE << >>)
         \o AccuraciesOwnColor(Tail(rows), color)

\* analyze_user_games, lines 799-800: white_accuracies, black_accuracies
RECURSIVE Accuracies(_, _)
Accuracies(rows, color) ==
    IF rows = << >> THEN << >>
    ELSE (IF ~IsNone(AccuracyField(rows[1], color))
          THEN <<Val(AccuracyField(rows[1], color))>> ELSE << >>)
         \o Accuracies(Tail(rows), color)

RECURSIVE SumOf(_)
SumOf(values) == IF values = << >> THEN 0 ELSE values[1] + SumOf(Tail(values))

\* analyze_user_games, lines 831-834: sum(...)/len(...) of a pool that is
\* not empty, as the fraction <<sum, len>>; nothing is printed for an empty
\* pool
Average(values) ==
    IF values = << >> THEN None ELSE Some(<<SumOf(values), Len(values)>>)

InitAccuracy ==
    /\ pc = "acc_loop"
    /\ variant = "accuracy"
    /\ username = Subject
    /\ rawGames \in UNION {[1 .. n -> AccuracyGames] : n \in 1 .. MaxAccuracyGames}
    /\ analyzed_games = << >>
    /\ stats = None
    /\ InitMainIdle
    /\ InitFetchIdle
    /\ InitParseIdle
    /\ InitDbIdle
    /\ InitConfigIdle

\* analyze_user_games, lines 735-737: the next game is analyzed
AccAnalyzeGame ==
    /\ pc = "acc_loop"
    /\ Len(analyzed_games) < Len(rawGames)
    /\ analyzed_games' =
          Append(analyzed_games, AccuracyRow(rawGames[Len(analyzed_games) + 1], username))
    /\ UNCHANGED <<pc, variant, username, rawGames, stats>>
    /\ UNCHANGED <<mainVars, fetchVars, parseVars, dbVars, configVars>>

\* analyze_user_games, lines 798-800 and 829-834: the two pools and their
\* averages
AccReport ==
    /\ pc = "acc_loop"
    /\ Len(analyzed_games) = Len(rawGames)
    /\ stats' = Some([white |-> Average(Accuracies(analyzed_games, "white")),
                      black |-> Average(Accuracies(analyzed_games, "black"))])
    /\ pc' = "acc_reported"
    /\ UNCHANGED <<variant, username, rawGames, analyzed_games>>
    /\ UNCHANGED <<mainVars, fetchVars, parseVars, dbVars, configVars>>

NextAccuracy ==
    \/ AccAnalyzeGame
    \/ AccReport

SpecAccuracy == InitAccuracy /\ [][NextAccuracy]_vars

(***************************************************************************)
(* Properties of main and get_recent_games, checked under Spec.            *)
(***************************************************************************)

Occurs(seq, x) == \E i \in DOMAIN seq : seq[i] = x
Count(seq, x) == Cardinality({i \in DOMAIN seq : seq[i] = x})

FilteredMode == ~IsNone(start_datetime) \/ ~IsNone(end_datetime)

\* start_date <= end_time <= end_date on the epoch seconds of the bounds
InRange(g) ==
    LET ts == Val(g.end_time) IN
    /\ \/ IsNone(start_datetime)
       \/ ts > Timestamp(Val(start_datetime))
       \/ ts = Timestamp(Val(start_datetime)) /\ Val(start_datetime).microsecond = 0
    /\ \/ IsNone(end_datetime)
       \/ ts <= Timestamp(Val(end_datetime))

\* the end date given without a time
EndDateOnly == ~IsNone(end_datetime) /\ IsNone(args.end_time)
EndDayMidnight ==
    LET e == Val(end_datetime) IN Timestamp(DateTime(e.year, e.month, e.day, 0, 0, 0, 0))

\* C5: in the filtered mode a fetched game is kept if and only if
\* start_date <= end_time <= end_date, both ends included and an absent
\* bound not constraining; when the end date comes without a time a game at
\* 23:59:00 of that day is kept and a game one second after the following
\* midnight is dropped.
DateFilterInclusive ==
    FilteredMode =>
        \A i \in DOMAIN fetchedOk :
            LET g == fetchedOk[i] IN
            ~IsNone(g.end_time) =>
                /\ Occurs(games, g) <=> InRange(g)
                /\ EndDateOnly =>
                      /\ (Val(g.end_time) = EndDayMidnight + 23 * 3600 + 59 * 60
                             /\ (IsNone(start_datetime)
                                   \/ Val(g.end_time) >= Timestamp(Val(start_datetime))))
                            => Occurs(games, g)
                      /\ Val(g.end_time) = EndDayMidnight + 86400 + 1 => ~Occurs(games, g)

\* C5 witness: start 2024-01-01 and end 2024-01-31, both without a time; the
\* games at the start instant, at 23:59:00 and at 23:59:59 of the end date
\* are kept, the fetched game at 2024-02-01T00:00:01 is dropped.
DateFilterScenarioE ==
    /\ pc = "merge"
    /\ args.start_date = Some(DateArg(2024, 1, 1)) /\ IsNone(args.start_time)
    /\ args.end_date = Some(DateArg(2024, 1, 31)) /\ IsNone(args.end_time)
    /\ Occurs(games, RawGame(2, At(2024, 1, 1, 0, 0, 0)))
    /\ Occurs(games, RawGame(3, At(2024, 1, 31, 23, 59, 0)))
    /\ Occurs(games, RawGame(5, At(2024, 1, 31, 23, 59, 59)))
    /\ Occurs(fetchedOk, RawGame(6, At(2024, 2, 1, 0, 0, 1)))
    /\ ~Occurs(games, RawGame(6, At(2024, 2, 1, 0, 0, 1)))

\* C6: get_recent_games returns min(num_games, pool size) games of the pool,
\* and no returned game is older than a game of the pool that is left out.
MergeTruncation ==
    pc = "analyze" =>
        /\ Len(recent) = Min(args.num_games, Len(games))
        /\ \A i \in DOMAIN recent : Count(recent, recent[i]) <= Count(games, recent[i])
        /\ \A i \in DOMAIN recent : \A j \in DOMAIN games :
               Count(games, games[j]) > Count(recent, games[j])
                   => EndTimeOr0(recent[i]) >= EndTimeOr0(games[j])

\* C6 witness: a pool larger than a positive num_games has been truncated.
MergeTruncated ==
    /\ pc = "analyze"
    /\ args.num_games >= 1
    /\ Len(games) > args.num_games
    /\ Len(recent) = args.num_games

MonthIndex(dt) == dt.year * 12 + dt.month - 1

\* the calendar months from the month of s through the month of e
CalendarMonths(s, e) ==
    [k \in 1 .. (MonthIndex(e) - MonthIndex(s) + 1) |->
        LET n == MonthIndex(s) + k - 1 IN <<n \div 12, (n % 12) + 1>>]

\* C7 (as claimed): in the filtered mode with start <= end (an absent start
\* being one year before now, an absent end being now) the buckets queried
\* are exactly the calendar months from the month of the start through the
\* month of the end, each once, in ascending order.
FilteredMonthsCoverRange ==
    LET s == SearchStart(start_datetime, now)
        e == SearchEnd(end_datetime, now)
    IN  (pc = "merge" /\ FilteredMode /\ DtLeq(s, e)) => fetchLog = CalendarMonths(s, e)

\* the bounds of the command line as epoch seconds
ArgStartSeconds ==
    LET d == Val(args.start_date) IN
    Timestamp(DateTime(d.year, d.month, d.day, 0, 0, 0, 0))
        + (IF IsNone(args.start_time) THEN 0
           ELSE Val(args.start_time).hour * 3600 + Val(args.start_time).minute * 60)
ArgEndSeconds ==
    LET d == Val(args.end_date) IN
    Timestamp(DateTime(d.year, d.month, d.day, 0, 0, 0, 0))
        + (IF IsNone(args.end_time) THEN 86399
           ELSE Val(args.end_time).hour * 3600 + Val(args.end_time).minute * 60)
StartAfterEnd ==
    /\ ~IsNone(args.start_date) /\ Val(args.start_date).ok
    /\ ~IsNone(args.end_date) /\ Val(args.end_date).ok
    /\ ArgStartSeconds > ArgEndSeconds

\* C8: when the start is after the end the run stops with a validation
\* error: no month is fetched for any subject and no report is produced.
InvalidRangeStopsRun ==
    StartAfterEnd =>
        /\ fetchCount = 0
        /\ reports = << >>
        /\ pc \in {"main_parse", "main_validate", "done"}
        /\ pc = "done" => outcome = "validation_error"

\* C8 witness: the run has ended on a start and an end of the same month,
\* the start being the later one.
InvalidRangeRejected ==
    /\ pc = "done"
    /\ outcome = "validation_error"
    /\ args.start_date = Some(DateArg(2024, 1, 15))
    /\ args.end_date = Some(DateArg(2024, 1, 10))
    /\ Len(args.usernames) = 2

\* C9: a failed fetch contributes no game and stops nothing: every planned
\* bucket is requested, in the filtered mode all of months_to_search, in the
\* unfiltered mode the offsets 0, 1, ... until a successful fetch brings
\* the count to num_games or the 12 offsets are used; the pool handed to
\* the merge holds the games of every successful fetch.
FetchFailureIsSkipped ==
    /\ pc = "fetch_filtered" => Len(fetchLog) = monthIdx - 1
    /\ pc = "fetch_unfiltered" => Len(fetchLog) = month_offset
    /\ pc \in {"merge", "analyze"} =>
          IF FilteredMode
          THEN /\ fetchLog = months_to_search
               /\ games = FilterByDate(fetchedOk, start_datetime, end_datetime)
          ELSE /\ games = fetchedOk
               /\ Len(fetchLog) = 12 \/ Len(games) >= args.num_games
               /\ \A i \in DOMAIN fetchLog : fetchLog[i] = UnfilteredBucket(now, i - 1)

\* C9 witness: the fetch of a bucket that holds games failed and a later
\* bucket was fetched and delivered its games.
FetchFailedThenSucceeded ==
    /\ pc = "merge"
    /\ \E i, j \in DOMAIN fetchLog :
          LET a == MonthlyData(archive, fetchLog[i][1], fetchLog[i][2])
              b == MonthlyData(archive, fetchLog[j][1], fetchLog[j][2])
          IN  /\ i < j
              /\ a # << >> /\ ~Occurs(fetchedOk, a[1])
              /\ b # << >> /\ Occurs(fetchedOk, b[1])

(***************************************************************************)
(* Properties of the normalizers and tallies, checked under SpecAnalyze.   *)
(***************************************************************************)

\* the classification table of the specification
ClassifyToken(token) ==
    IF IsNone(token) THEN "Unknown"
    ELSE IF Val(token) = "win" THEN "Win"
    ELSE IF Val(token) \in LossTokens THEN "Loss"
    ELSE IF Val(token) \in DrawTokens THEN "Draw"
    ELSE "Unknown"

\* the canonical result a script's result string stands for
Canonical(result) ==
    IF result \in {"win", "Win"} THEN "Win"
    ELSE IF result \in {"loss", "Loss"} THEN "Loss"
    ELSE IF result \in {"draw", "Draw"} THEN "Draw"
    ELSE "Unknown"

SubjectIsWhite(game) == Lower(username) = Lower(game.white.username)
SubjectIsBlack(game) == ~SubjectIsWhite(game) /\ Lower(username) = Lower(game.black.username)
SubjectPlays(game) == SubjectIsWhite(game) \/ SubjectIsBlack(game)
OwnToken(game) == IF SubjectIsWhite(game) THEN game.white.result ELSE game.black.result
InTable(token) == ClassifyToken(token) # "Unknown"

\* C1 (as claimed): the result of a game is the classification of the token
\* of the subject's own side, whatever the token of the other side; stated
\* for the own-side tokens of the table, on which both scripts' tables agree.
ResultFromOwnSide ==
    \A i \in DOMAIN analyzed_games :
        (SubjectPlays(rawGames[i]) /\ InTable(OwnToken(rawGames[i])))
            => Canonical(analyzed_games[i].result) = ClassifyToken(OwnToken(rawGames[i]))

\* C2 (as claimed): the token a script classifies maps to Win, Loss or Draw
\* by the table and to Unknown otherwise, a missing token included; stated
\* for a White subject, whose token is the one both scripts read.
ClassificationTable ==
    \A i \in DOMAIN analyzed_games :
        SubjectIsWhite(rawGames[i])
            => Canonical(analyzed_games[i].result) = ClassifyToken(rawGames[i].white.result)

MatchedGames == Cardinality({i \in DOMAIN rawGames : SubjectPlays(rawGames[i])})

\* C3 (as claimed): a game in which the subject plays neither side gets no
\* color and is counted neither in the total nor in wins, losses or draws.
UnmatchedSubjectDropped ==
    /\ \A i \in DOMAIN analyzed_games :
          ~SubjectPlays(rawGames[i]) => analyzed_games[i].player_color \notin {"white", "black"}
    /\ pc = "report" =>
          /\ Val(stats).tally.total_games <= MatchedGames
          /\ Val(stats).tally.wins + Val(stats).tally.losses + Val(stats).tally.draws
                <= MatchedGames

UnknownGames ==
    Cardinality({i \in DOMAIN rawGames :
                    SubjectPlays(rawGames[i]) /\ ~InTable(OwnToken(rawGames[i]))})

\* C4 (as claimed): in a report over games the subject played, a game whose
\* own-side token is outside the table counts toward the total and toward
\* none of wins, losses and draws.
UnknownCountsTowardTotalOnly ==
    (pc = "report" /\ MatchedGames = Len(rawGames)) =>
        LET t == Val(stats).tally IN
        /\ t.wins + t.losses + t.draws + UnknownGames = t.total_games
        /\ UnknownGames > 0 => t.wins + t.losses + t.draws < t.total_games

(***************************************************************************)
(* Properties of extract_opening_moves, checked under SpecParse.           *)
(***************************************************************************)

\* a decimal number, a period and, after optional whitespace, a move token
\* somewhere in the text
HasNumberedMove(str) ==
    \E i, j, k \in DOMAIN str :
        /\ i < j /\ j < k
        /\ \A d \in i .. (j - 1) : IsDigit(str[d])
        /\ str[j] = "."
        /\ \A w \in (j + 1) .. (k - 1) : IsSpace(str[w])
        /\ ~IsSpace(str[k])

\* C10: an empty or None blob gives ("N/A", "Unknown"), a blob whose moves
\* text holds no numbered move gives ("N/A", "Unknown"), and
\* classify_opening is never called with "N/A".
EmptyBlobGivesNA ==
    pc = "parsed" =>
        /\ (pgn.kind = "none" \/ (pgn.kind = "str" /\ pgn.text = << >>))
              => opening = Some(<<NA, "Unknown">>) /\ classifyCalls = << >>
        /\ (pgn.kind = "str" /\ ~HasNumberedMove(MovesText(pgn.text)))
              => opening = Some(<<NA, "Unknown">>) /\ classifyCalls = << >>
        /\ \A i \in DOMAIN classifyCalls : classifyCalls[i] # NA

\* C10 witness: a blob of header lines only, which holds digits and periods
\* but no move, has been parsed to ("N/A", "Unknown").
HeaderOnlyBlobParsed ==
    /\ pc = "parsed"
    /\ pgn.kind = "str"
    /\ Len(pgn.text) > MaxPgnLen
    /\ HasNumberedMove(pgn.text)
    /\ ~HasNumberedMove(MovesText(pgn.text))
    /\ opening = Some(<<NA, "Unknown">>)

\* C11 (as claimed): extract_opening_moves returns on every input, and when
\* the parsing fails inside it the prefix returned is "N/A" and the label
\* "Unknown".
ParseFailureGivesNA ==
    (pc = "parsed" /\ pgn.kind = "other") => opening = Some(<<NA, "Unknown">>)

(***************************************************************************)
(* Properties of classify_opening, checked under SpecClassify.             *)
(***************************************************************************)

\* the pattern occurs in the text
Occurrence(text, pattern) ==
    \E i \in 0 .. (Len(text) - Len(pattern)) :
        \A k \in 1 .. Len(pattern) : text[i + k] = pattern[k]

\* the text begins with the pattern
Begins(text, pattern) ==
    Len(text) >= Len(pattern) /\ \A k \in 1 .. Len(pattern) : text[k] = pattern[k]

\* the decision list as the claim gives it, flattened: a rule matches when
\* every pattern of `has` occurs and the text begins with `begins`
Rule(has, begins, label) == [has |-> has, begins |-> begins, label |-> label]

DecisionList ==
    << Rule({<<"e", "4", " ", "e", "5">>, <<"n", "f", "3", " ", "n", "c", "6">>}, << >>,
            "Italian Game / Spanish Opening"),
       Rule({<<"e", "4", " ", "e", "5">>, <<"b", "c", "4">>}, << >>, "Italian Game"),
       Rule({<<"e", "4", " ", "e", "5">>, <<"b", "b", "5">>}, << >>,
            "Spanish Opening (Ruy Lopez)"),
       Rule({<<"e", "4", " ", "e", "5">>}, << >>, "King's Pawn Game"),
       Rule({<<"e", "4", " ", "c", "5">>}, << >>, "Sicilian Defense"),
       Rule({<<"e", "4", " ", "e", "6">>}, << >>, "French Defense"),
       Rule({<<"e", "4", " ", "c", "6">>}, << >>, "Caro-Kann Defense"),
       Rule({<<"d", "4", " ", "d", "5">>}, << >>, "Queen's Pawn Game"),
       Rule({<<"d", "4", " ", "n", "f", "6">>, <<"c", "4">>}, << >>,
            "English Opening / Queen's Indian"),
       Rule({<<"d", "4", " ", "n", "f", "6">>}, << >>, "Indian Defense"),
       Rule({}, <<"1", ".", " ", "n", "f", "3">>, "Reti Opening"),
       Rule({}, <<"1", ".", " ", "c", "4">>, "English Opening"),
       Rule({}, <<"1", ".", " ", "f", "4">>, "Bird's Opening"),
       Rule({}, << >>, "Other Opening") >>

Matches(rule, text) ==
    /\ \A pattern \in rule.has : Occurrence(text, pattern)
    /\ Begins(text, rule.begins)

\* the label of the first rule of the list that matches the lower-cased text
FirstMatch(text) ==
    LET lowered == Lower(text)
        first == CHOOSE i \in DOMAIN DecisionList :
                     /\ Matches(DecisionList[i], lowered)
                     /\ \A j \in 1 .. (i - 1) : ~Matches(DecisionList[j], lowered)
    IN  DecisionList[first].label

ItalianSpanishPrefix ==
    <<"1", ".", " ", "e", "4", " ", "e", "5", " ", "2", ".", " ", "N", "f", "3", " ", "N", "c", "6">>
EnglishPrefix == <<"1", ".", " ", "c", "4">>

\* C12: every call of classify_opening returns the label of the first rule
\* of the decision list that matches the lower-cased prefix; "1. e4 e5 2.
\* Nf3 Nc6" gives "Italian Game / Spanish Opening" and "1. c4" gives
\* "English Opening"; two calls with the same prefix give the same label.
ClassifyFirstMatchWins ==
    /\ Len(labels) = Len(classifyCalls)
    /\ \A i \in DOMAIN classifyCalls :
          /\ labels[i] = FirstMatch(classifyCalls[i])
          /\ classifyCalls[i] = ItalianSpanishPrefix
                => labels[i] = "Italian Game / Spanish Opening"
          /\ classifyCalls[i] = EnglishPrefix => labels[i] = "English Opening"
          /\ \A j \in DOMAIN classifyCalls :
                classifyCalls[i] = classifyCalls[j] => labels[i] = labels[j]

\* C12 witness: the two prefixes of the claim have been classified, one
\* after the other.
ClaimedPrefixesClassified ==
    /\ pc = "classify"
    /\ classifyCalls = <<ItalianSpanishPrefix, EnglishPrefix>>
    /\ labels = <<"Italian Game / Spanish Opening", "English Opening">>

(***************************************************************************)
(* Properties of analyze_user_games and of main's loop, checked under Spec. *)
(***************************************************************************)

\* the games of a list that carry a rating
Rated(gs) == {i \in DOMAIN gs : ~IsNone(gs[i].player_rating)}

\* C13 (as claimed): in every report over games with ratings, the current
\* rating is the rating of a rated game with the greatest end_time, the
\* highest rating is the maximum and the lowest the minimum of the ratings.
CurrentRatingIsMostRecent ==
    \A k \in DOMAIN processed :
        LET gs == processed[k].games
            r  == Val(processed[k].stats)
        IN  (processed[k].outcome = "report" /\ Rated(gs) # {}) =>
                /\ \E i \in Rated(gs) :
                      /\ r.current_rating = gs[i].player_rating
                      /\ \A j \in Rated(gs) : EndTimeOr0(gs[j]) <= EndTimeOr0(gs[i])
                /\ \A j \in Rated(gs) : Val(gs[j].player_rating) <= Val(r.highest_rating)
                /\ \A j \in Rated(gs) : Val(r.lowest_rating) <= Val(gs[j].player_rating)
                /\ \E j \in Rated(gs) : r.highest_rating = gs[j].player_rating
                /\ \E j \in Rated(gs) : r.lowest_rating = gs[j].player_rating

(***************************************************************************)
(* Properties of the reports' arithmetic, checked under SpecAnalyze.       *)
(***************************************************************************)

\* C14 (as claimed): whatever games were analyzed, no rate or percentage
\* of a report is divided by zero, and no report ends in a
\* ZeroDivisionError.
NoDivisionByZero ==
    /\ pc # "crashed"
    /\ ~IsNone(stats) /\ pc = "report" => 0 \notin Val(stats).divisors

\* the side of a raw game that the subject's name matches without regard
\* to case: "white", "black", or "none"
MatchedSide(game, user) ==
    IF Lower(user) = Lower(game.white.username) THEN "white"
    ELSE IF Lower(user) = Lower(game.black.username) THEN "black"
    ELSE "none"

\* C18 (as claimed): for every raw game whose white or black side is the
\* subject, the analyzed game's opponent_username and opponent_rating are
\* the username and the rating of the other side, and its player_rating
\* is the rating of the subject's side.
OpponentFromOtherSide ==
    \A i \in DOMAIN analyzed_games :
        LET game  == rawGames[i]
            row   == analyzed_games[i]
            side  == MatchedSide(game, username)
            own   == IF side = "white" THEN game.white ELSE game.black
            other == IF side = "white" THEN game.black ELSE game.white
        IN  side # "none" =>
                /\ row.opponent_username = other.username
                /\ row.opponent_rating = other.rating
                /\ row.player_rating = own.rating

(***************************************************************************)
(* Properties of persistence and of the loop over the subjects, checked    *)
(* under Spec.                                                             *)
(***************************************************************************)

\* C15 (as claimed): whatever the database does (connection refused, any
\* stores failing, the refresh failing), every subject with fetched games
\* gets the report that a run without database computes from those games.
PersistenceIsBestEffort ==
    \A i \in DOMAIN processed :
        processed[i].games # << >> =>
            /\ processed[i].outcome = "report"
            /\ processed[i].stats = Some(Report(processed[i].games))

\* C16: the subjects are handled one after another in the order given,
\* each once; a subject whose analysis raised does not stop the loop, so a
\* completed run has handled every subject; and every report printed is
\* computed from the games fetched for its own subject only.
SubjectsInOrderEachOnce ==
    /\ Len(processed) = userIdx - 1
    /\ Len(processed) <= Len(args.usernames)
    /\ \A i \in DOMAIN processed :
          /\ processed[i].subject = args.usernames[i]
          /\ processed[i].outcome = "report" =>
                processed[i].stats = Some(Report(processed[i].games))
    /\ pc = "done" /\ outcome = "complete" => Len(processed) = Len(args.usernames)

\* C16 witness: a completed run over two subjects in which the analysis of
\* the first raised and the second got its report.
LaterSubjectAnalyzedAfterError ==
    /\ pc = "done" /\ outcome = "complete"
    /\ Len(processed) = 2
    /\ processed[1].outcome = "error"
    /\ processed[2].outcome = "report"

(***************************************************************************)
(* Properties of the unfiltered walk of get_recent_games, checked under    *)
(* Spec.                                                                   *)
(***************************************************************************)

\* C20 (as claimed): in the unfiltered mode a bucket is fetched only while
\* the games accumulated so far are fewer than num_games, whatever
\* num_games is (0 included) and whichever fetches fail, and at most 12
\* buckets are fetched.
NoFetchOnceTargetReached ==
    /\ [][FetchUnfilteredMonth => Len(games) < args.num_games]_vars
    /\ [](pc = "fetch_unfiltered" => Len(fetchLog) < 12)

(***************************************************************************)
(* Properties of configure_database, checked under SpecConfig.             *)
(***************************************************************************)

Copies(seq, g) == Cardinality({i \in DOMAIN seq : seq[i] = g})

\* the end_time values of the games of seq
EndTimes(seq) == {EndTimeOr0(seq[i]) : i \in DOMAIN seq}

\* C17 (as claimed): when the walk has fetched at least N games (N = 50
\* for get_last_50_games, num_games for get_recent_games), the list
\* returned holds N of the fetched games, and no fetched game left out
\* ended later than a returned one.
ReturnsMostRecent ==
    pc = "done" /\ Len(games) >= args.num_games =>
        /\ Len(recent) = args.num_games
        /\ \A i \in DOMAIN recent : Copies(recent, recent[i]) <= Copies(games, recent[i])
        /\ \A i \in DOMAIN games :
              Copies(recent, games[i]) < Copies(games, games[i]) =>
                  \A t \in EndTimes(recent) : EndTimeOr0(games[i]) <= t

(***************************************************************************)
(* Properties of the list get_recent_games returns, checked under Spec.    *)
(***************************************************************************)

\* C21: the list get_recent_games returns is in descending order of
\* end_time, a missing end_time counting as 0, in the filtered and in the
\* unfiltered mode.
ReturnedSortedDescending ==
    \A i \in 1 .. (Len(recent) - 1) :
        EndTimeOr0(recent[i]) >= EndTimeOr0(recent[i + 1])

\* C21 witness: two games returned, the later one first, from a pool that
\* was fetched oldest first and holds a game without end_time.
ReturnedSortedFromUnsortedPool ==
    /\ pc = "analyze"
    /\ Len(recent) = 2
    /\ EndTimeOr0(recent[1]) > EndTimeOr0(recent[2])
    /\ \E i \in DOMAIN games : IsNone(games[i].end_time)
    /\ \E i \in 1 .. (Len(games) - 1) : EndTimeOr0(games[i]) < EndTimeOr0(games[i + 1])

(***************************************************************************)
(* Properties of the merge over buckets fetched in any order, checked      *)
(* under SpecMerge.                                                        *)
(***************************************************************************)

\* the buckets in calendar order
CalendarOrder == <<<<2024, 1>>, <<2024, 2>>, <<2024, 3>>>>

\* C22 (as claimed): for the same contents of the buckets and the same
\* num_games, the list returned after fetching the buckets in any order is
\* the list returned after fetching them in calendar order, games that
\* share an end_time included.
FetchOrderIrrelevant ==
    pc = "done" /\ variant = "merge" =>
        recent = MergeGames(PoolOf(archive, CalendarOrder), args.num_games)

(***************************************************************************)
(* Properties of the prefix extract_opening_moves builds, checked under    *)
(* SpecParse.                                                              *)
(***************************************************************************)

\* str.split(): the tokens of a text, from index i
RECURSIVE TokensFrom(_, _)
TokensFrom(str, i) ==
    LET b == i + SpaceRun(str, i)
        n == TokenRun(str, b)
    IN  IF n = 0 THEN << >>
        ELSE <<SubSeq(str, b, b + n - 1)>> \o TokensFrom(str, b + n)

\* the prefix returned, and its tokens
PrefixOf(o) == Val(o)[1]
PrefixTokens(o) == TokensFrom(PrefixOf(o), 1)

\* a move number: digits and one period
IsMoveNumber(token) ==
    /\ Len(token) >= 2
    /\ token[Len(token)] = "."
    /\ \A i \in 1 .. (Len(token) - 1) : IsDigit(token[i])

Glyphs == {"+", "#", "?", "!"}

\* C23 (as claimed): the prefix of a text of numbered moves holds at most
\* three move numbers, each with at most two moves, and no token of it ends
\* in a check, mate or annotation glyph.
PrefixThreePairsNoGlyphs ==
    (pc = "parsed" /\ pgn.kind = "str" /\ pgn.text \in NumberedMoveTexts) =>
        LET tokens == PrefixTokens(opening) IN
        /\ Cardinality({i \in DOMAIN tokens : IsMoveNumber(tokens[i])}) <= 3
        /\ Len(tokens) <= 9
        /\ \A i \in DOMAIN tokens : tokens[i][Len(tokens[i])] \notin Glyphs

\* C30 (as claimed): in the prefix of a text of numbered moves, every token
\* that is not a move number is a move: it does not begin with a digit, as
\* the markers "1..." and the results "1-0", "0-1", "1/2-1/2" do.
PrefixHoldsMovesOnly ==
    (pc = "parsed" /\ pgn.kind = "str" /\ pgn.text \in NumberedMoveTexts) =>
        LET tokens == PrefixTokens(opening) IN
        \A i \in DOMAIN tokens : IsMoveNumber(tokens[i]) \/ ~IsDigit(tokens[i][1])

(***************************************************************************)
(* Properties of the opening rollup, checked under SpecRollup.             *)
(***************************************************************************)

\* the analyzed games with a label, and those of them with a result
RowsWith(label) == {i \in DOMAIN analyzed_games : analyzed_games[i].opening_name = label}
RowsWithResult(label, result) ==
    {i \in RowsWith(label) : analyzed_games[i].result = result}

\* C24 (as claimed): for every list of analyzed games the fold raises no
\* error, the rollup has one entry per label seen, the count of a label is
\* the number of games with it, and its wins, losses and draws are the
\* numbers of those games won, lost and drawn.
OpeningRollupCounts ==
    (variant \in {"advanced", "fixed"} /\ ~IsNone(stats)) =>
        LET openings == Val(stats) IN
        /\ pc # "crashed"
        /\ DOMAIN openings = {analyzed_games[i].opening_name : i \in DOMAIN analyzed_games}
        /\ \A label \in DOMAIN openings :
              /\ openings[label].count  = Cardinality(RowsWith(label))
              /\ openings[label].wins   = Cardinality(RowsWithResult(label, "win"))
              /\ openings[label].losses = Cardinality(RowsWithResult(label, "loss"))
              /\ openings[label].draws  = Cardinality(RowsWithResult(label, "draw"))

(***************************************************************************)
(* Properties of the calls analyze_user_games makes on the database,       *)
(* checked under SpecPersist.                                              *)
(***************************************************************************)

\* the positions of the calls of one kind in db_log
CallsOf(op) == {i \in DOMAIN db_log : db_log[i].op = op}

\* the games of the store attempts, in the order of the attempts
RECURSIVE StoreIds(_)
StoreIds(log) ==
    IF log = << >> THEN << >>
    ELSE (IF log[1].op = "store" THEN <<log[1].game>> ELSE << >>) \o StoreIds(Tail(log))

\* the ids of a list of games
GameIds(gs) == [i \in DOMAIN gs |-> gs[i].id]

\* the run of analyze_user_games is over
RunOver == pc \in {"returned", "raised"}

\* with a connection: one store attempt per analyzed game, in the order of
\* the analysis
OneStorePerAnalyzedGame == HasConnection => StoreIds(db_log) = GameIds(analyzed_games)

\* every refresh comes after every store attempt, every read-back after a
\* refresh
RefreshAfterStoresThenReadBack ==
    /\ \A r \in CallsOf("refresh") : \A s \in CallsOf("store") : s < r
    /\ \A b \in CallsOf("read_back") : \E r \in CallsOf("refresh") : r < b

ConnectionClosedOnReturn ==
    (pc = "returned" /\ HasConnection) => db_log[Len(db_log)] = Closed

(***************************************************************************)
(* Properties of the buckets of the unfiltered walk, checked under Spec.   *)
(***************************************************************************)

\* the calendar month before a (year, month)
PreviousMonth(ym) == IF ym[2] = 1 THEN <<ym[1] - 1, 12>> ELSE <<ym[1], ym[2] - 1>>

\* get_recent_games walks without a date filter
UnfilteredMode == IsNone(start_datetime) /\ IsNone(end_datetime)

\* C28 (as claimed): in unfiltered mode the buckets queried at offsets
\* 0, 1, 2, ... are pairwise distinct and each is the calendar month before
\* the one queried at the previous offset: no month twice, none skipped.
BucketsConsecutiveDistinct ==
    UnfilteredMode =>
        /\ \A i, j \in DOMAIN fetchLog : i < j => fetchLog[i] # fetchLog[j]
        /\ \A i \in DOMAIN fetchLog :
              i > 1 => fetchLog[i] = PreviousMonth(fetchLog[i - 1])

(***************************************************************************)
(* Properties of the pool of get_recent_games, checked under               *)
(* SpecUnfiltered.                                                         *)
(***************************************************************************)

\* the games that occur in a list
Members(seq) == {seq[i] : i \in DOMAIN seq}

\* C27: the merge does not de-duplicate: a game occurs in the pool as often
\* as in the batches fetched, and as often in the list returned when
\* nothing is cut off; a break before the twelfth bucket means the pool,
\* every occurrence counted, has reached num_games; the list returned has
\* num_games entries whenever the pool, every occurrence counted, has them.
NoDeduplication ==
    /\ \A g \in Members(fetchedOk) : Copies(games, g) = Copies(fetchedOk, g)
    /\ (pc = "merge" /\ Len(fetchLog) < 12) => Len(games) >= args.num_games
    /\ pc = "analyze" =>
          /\ Len(recent) = Min(Len(games), args.num_games)
          /\ Len(games) <= args.num_games =>
                \A g \in Members(games) : Copies(recent, g) = Copies(games, g)

\* C27 witness: a game fetched in two buckets is returned twice, its second
\* occurrence having stopped the walk and filled the list.
SameGameReturnedTwice ==
    /\ pc = "analyze"
    /\ args.num_games = 2
    /\ Len(fetchLog) = 2
    /\ fetchLog[1] = fetchLog[2]
    /\ Len(recent) = 2
    /\ recent[1] = recent[2]

(***************************************************************************)
(* Properties of the accuracy averages, checked under SpecAccuracy.        *)
(***************************************************************************)

\* the accuracy a header of AccuracyTexts stands for, in hundredths
HeaderValue(choice) ==
    IF choice = Some(<<"8", "5", ".", "5">>) THEN Some(8550)
    ELSE IF choice = Some(<<"7", "2">>) THEN Some(7200)
    ELSE None

\* the header values of a color in the raw games numbered in idx, summed
\* and counted
RawValues(color, idx) ==
    {<<i, v>> \in idx \X {7200, 8550} :
        \E w, b \in HeaderChoices :
            /\ rawGames[i].pgn = PgnWith(w, b)
            /\ Some(v) = HeaderValue(IF color = "white" THEN w ELSE b)}

RawCount(color, v) == Cardinality({p \in RawValues(color, DOMAIN rawGames) : p[2] = v})

RawSum(color) == 7200 * RawCount(color, 7200) + 8550 * RawCount(color, 8550)

RawAverage(color) ==
    IF RawValues(color, DOMAIN rawGames) = {} THEN None
    ELSE Some(<<RawSum(color), Cardinality(RawValues(color, DOMAIN rawGames))>>)

\* C26: every analyzed game carries the two accuracies of its raw game,
\* whichever side the subject played, and each reported average is the
\* mean of that color's accuracy over all analyzed games that have one,
\* the games the subject played with the other color included.
AccuracyAveragesOverAllGames ==
    /\ \A i \in DOMAIN analyzed_games : \A w, b \in HeaderChoices :
          rawGames[i].pgn = PgnWith(w, b) =>
              /\ analyzed_games[i].accuracy_white = HeaderValue(w)
              /\ analyzed_games[i].accuracy_black = HeaderValue(b)
    /\ pc = "acc_reported" =>
          /\ Val(stats).white = RawAverage("white")
          /\ Val(stats).black = RawAverage("black")

\* C26 witness: the subject played White in one game and Black in the
\* other, both with a White accuracy, and the White average is over both.
WhiteAverageOverBothColors ==
    /\ pc = "acc_reported"
    /\ Len(analyzed_games) = 2
    /\ analyzed_games[1].player_color = "white"
    /\ analyzed_games[2].player_color = "black"
    /\ analyzed_games[1].accuracy_white = Some(8550)
    /\ analyzed_games[2].accuracy_white = Some(7200)
    /\ Val(stats).white = Some(<<15750, 2>>)

====
